---- MODULE Spec2Model ----
(***************************************************************************)
(* A model of the freeform 2D constraint solver core (src/freeform.h):     *)
(* the generational slot tables, the sketch facade, the expression heap    *)
(* with symbolic differentiation, and the linker run at the head of Solve. *)
(*                                                                         *)
(* Pointers are modelled as heap addresses (NULL is 0); malloc is assumed  *)
(* to succeed.  A table's slot storage is named by a block id so that a    *)
(* pointer into storage replaced by realloc can be told from a valid one.  *)
(***************************************************************************)
EXTENDS Integers, Sequences, FiniteSets, TLC

\* ------------------------------------------------------------------ widths
FF_INVALID_INDEX == 65535
UINT16_MOD == 65536
INT32_MAX == 2147483647
NULL == 0

\* A uint32_t is held as the int32_t with the same bits (0xFFFFFFFF is -1):
\* the code only increments generations and compares them for equality.
U32_inc(g) == IF g = INT32_MAX THEN (-INT32_MAX) - 1 ELSE g + 1

\* ------------------------------------------------------------------ bounds
\* The state-changing calls (successful adds and deletes, Solve) a client
\* makes in one run, and how many of them may be adds or deletes on one table.
MaxCalls == 4

MaxAdds == MaxCalls - 2

MaxDels == MaxCalls - 2

\* ---------------------------------------------------------- ff_float values
\* An ff_float is modelled exactly, as a normalised fraction <<n, d>> with
\* d > 0; the IEEE-754 special values are <<1, 0>> (+inf), <<-1, 0>> (-inf)
\* and <<0, 0>> (NaN).  Signed zeros and rounding are not modelled.  A pair
\* with d < 0 is a value the model does not track (an irrational result);
\* arithmetic hands it on.
Rat(n) == <<n, 1>>

Untracked == <<0, -2>>

IsTracked(x) == x[2] >= 0

NaN == <<0, 0>>

Inf(sign) == <<sign, 0>>

IsNaN(x) == x = NaN

IsInf(x) == x[2] = 0 /\ x[1] # 0

IsFinite(x) == x[2] > 0

Abs(i) == IF i < 0 THEN -i ELSE i

Sign(i) == IF i < 0 THEN -1 ELSE IF i > 0 THEN 1 ELSE 0

RECURSIVE GCD(_, _)
GCD(a, b) == IF b = 0 THEN a ELSE GCD(b, a % b)

Frac(n, d) ==
    LET g == GCD(Abs(n), Abs(d))
    IN  IF d < 0 THEN <<(-n) \div g, (-d) \div g>> ELSE <<n \div g, d \div g>>

FNeg(x) == <<-x[1], x[2]>>

FAdd(x, y) ==
    IF ~IsTracked(x) \/ ~IsTracked(y) THEN Untracked
    ELSE IF IsNaN(x) \/ IsNaN(y) THEN NaN
    ELSE IF IsInf(x) THEN (IF IsInf(y) /\ y # x THEN NaN ELSE x)
    ELSE IF IsInf(y) THEN y
    ELSE Frac(x[1] * y[2] + y[1] * x[2], x[2] * y[2])

FSub(x, y) == FAdd(x, FNeg(y))

FMul(x, y) ==
    IF ~IsTracked(x) \/ ~IsTracked(y) THEN Untracked
    ELSE IF IsNaN(x) \/ IsNaN(y) THEN NaN
    ELSE IF IsInf(x) \/ IsInf(y)
         THEN (IF x[1] = 0 \/ y[1] = 0 THEN NaN ELSE Inf(Sign(x[1]) * Sign(y[1])))
    ELSE Frac(x[1] * y[1], x[2] * y[2])

FDiv(x, y) ==
    IF ~IsTracked(x) \/ ~IsTracked(y) THEN Untracked
    ELSE IF IsNaN(x) \/ IsNaN(y) THEN NaN
    ELSE IF IsInf(x) THEN (IF IsInf(y) THEN NaN
                           ELSE Inf(Sign(x[1]) * (IF y[1] < 0 THEN -1 ELSE 1)))
    ELSE IF IsInf(y) THEN Rat(0)
    ELSE IF y[1] = 0 THEN (IF x[1] = 0 THEN NaN ELSE Inf(Sign(x[1])))
    ELSE Frac(x[1] * y[2], x[2] * y[1])

fabs(x) == <<Abs(x[1]), x[2]>>

\* x > y and x < y as C compares doubles: false when either is NaN.
FGt(x, y) ==
    IF ~IsTracked(x) \/ ~IsTracked(y) THEN FALSE
    ELSE IF IsNaN(x) \/ IsNaN(y) THEN FALSE
    ELSE IF IsInf(x) \/ IsInf(y)
         THEN (IF IsInf(x) /\ IsInf(y) THEN x[1] > y[1]
               ELSE IF IsInf(x) THEN x[1] > 0 ELSE y[1] < 0)
    ELSE x[1] * y[2] > y[1] * x[2]

FLt(x, y) == FGt(y, x)

FIsZero(x) == x = Rat(0)

\* x < epsilon for the solver's epsilon of 1e-10: a tracked fraction n/d has
\* d < 2^31 < 10^10, so n/d < 1e-10 exactly when n <= 0.
BelowEpsilon(x) == IsTracked(x) /\ ~IsNaN(x) /\ x[1] <= 0

\* The libm functions at the arguments where the result is a fraction.
IsSquare(n) == \E r \in 0..n : r * r = n

Root(n) == CHOOSE r \in 0..n : r * r = n

FSqrt(x) ==
    IF ~IsTracked(x) THEN Untracked
    ELSE IF IsNaN(x) \/ x[1] < 0 THEN NaN
    ELSE IF IsInf(x) THEN x
    ELSE IF IsSquare(x[1]) /\ IsSquare(x[2]) THEN <<Root(x[1]), Root(x[2])>>
    ELSE Untracked

FSin(x) ==
    IF ~IsTracked(x) THEN Untracked
    ELSE IF ~IsFinite(x) THEN NaN
    ELSE IF x = Rat(0) THEN Rat(0) ELSE Untracked

FCos(x) ==
    IF ~IsTracked(x) THEN Untracked
    ELSE IF ~IsFinite(x) THEN NaN
    ELSE IF x = Rat(0) THEN Rat(1) ELSE Untracked

FAsin(x) ==
    IF ~IsTracked(x) THEN Untracked
    ELSE IF ~IsFinite(x) \/ FGt(fabs(x), Rat(1)) THEN NaN
    ELSE IF x = Rat(0) THEN Rat(0) ELSE Untracked

FAcos(x) ==
    IF ~IsTracked(x) THEN Untracked
    ELSE IF ~IsFinite(x) \/ FGt(fabs(x), Rat(1)) THEN NaN
    ELSE IF x = Rat(1) THEN Rat(0) ELSE Untracked

\* ------------------------------------------------------------- handles
Handle(i, g) == [idx |-> i, gen |-> g]

ff_INVALIDHANDLE == Handle(FF_INVALID_INDEX, 0)

\* A comparison of the indices only.
ffGenHandle_Equals_idx(a, b) == a.idx = b.idx

ffGenHandle_Equals(a, b) == (a.gen = b.gen) /\ (a.idx = b.idx)

\* ------------------------------------------------- generational slot table
\* A table is [slots, runs, cap, alive_count, free_head, blk].  The slot
\* array of cap elements is kept run-length encoded: runs is the sequence of
\* index ranges [lo, hi, alive, last_next, payload] that were laid down
\* together (slot i of a run has generation 1, next_free i + 1, or last_next
\* when i = hi), and slots holds the elements written since, by index.  Slot
\* reads element i and SlotPut writes it.  blk names the storage block the
\* slots pointer refers to (0: NULL).
\* New slots that are not threaded into a list.
RunSlot_unlinked(r, i) ==
    [gen       |-> 1,
     alive     |-> r.alive,
     next_free |-> FF_INVALID_INDEX,
     payload   |-> r.payload]

RunSlot(r, i) ==
    [gen       |-> 1,
     alive     |-> r.alive,
     next_free |-> IF i = r.hi THEN r.last_next ELSE (i + 1) % UINT16_MOD,
     payload   |-> r.payload]

Slot(t, i) ==
    IF i \in DOMAIN t.slots THEN t.slots[i]
    ELSE LET k == CHOOSE k \in 1..Len(t.runs) : t.runs[k].lo <= i /\ i <= t.runs[k].hi
         IN  RunSlot(t.runs[k], i)

SlotPut(t, i, s) ==
    [t EXCEPT !.slots = [j \in (DOMAIN t.slots) \cup {i} |->
                            IF j = i THEN s ELSE t.slots[j]]]

\* A growth that is not clamped.
FF__CLAMP_CAP_none(x) == x

FF__CLAMP_CAP_16(x) == IF x > 65535 THEN 65535 ELSE x

ff_Parameter_DEFAULT == [def |-> [v |-> Rat(0)]]

\* The union ff_EntityDef.data overlays its members: h1, h2, h3 are the three
\* handle-sized fields (point x, y; line p1, p2; circle c, r; arc p1, p2, p3).
ff_Entity_DEFAULT ==
    [def |-> [type |-> 0, h1 |-> Handle(0, 0), h2 |-> Handle(0, 0), h3 |-> Handle(0, 0)]]

ff_Constraint_DEFAULT ==
    [def |-> [eq |-> NULL, type |-> 0, tag |-> 0],
     JMR |-> [err |-> Rat(0), dervs |-> NULL, dervs_y |-> NULL]]

\* A growth that allocates the larger array without copying the old slots.
TBL__grow_fresh(t, add, dflt, moved) ==
    IF add = 0 THEN t
    ELSE LET new_cap == FF__CLAMP_CAP_16(t.cap + add)
         IN  IF new_cap <= t.cap THEN t
             ELSE [slots       |-> [i \in {} |-> NULL],
                   runs        |-> <<[lo |-> 0, hi |-> new_cap - 1, alive |-> FALSE,
                                      last_next |-> t.free_head, payload |-> dflt]>>,
                   cap         |-> new_cap,
                   alive_count |-> t.alive_count,
                   free_head   |-> t.cap,
                   blk         |-> t.blk + 1]

\* realloc either extends the block in place or moves it: moved says which.
\* The new slots cap..new_cap-1 are one run: dead, generation 1, threaded
\* into a free list that ends in the old free_head.
TBL__grow(t, add, dflt, moved) ==
    IF add = 0 THEN t
    ELSE LET new_cap32 == t.cap + add
             new_cap   == FF__CLAMP_CAP_16(new_cap32)
         IN  IF new_cap <= t.cap THEN t
             ELSE [slots       |-> t.slots,
                   runs        |-> Append(t.runs, [lo        |-> t.cap,
                                                   hi        |-> new_cap - 1,
                                                   alive     |-> FALSE,
                                                   last_next |-> t.free_head,
                                                   payload   |-> dflt]),
                   cap         |-> new_cap,
                   alive_count |-> t.alive_count,
                   free_head   |-> t.cap,
                   blk         |-> IF moved \/ t.blk = 0 THEN t.blk + 1 ELSE t.blk]

NoSlots == [i \in {} |-> NULL]

TBL_init(initial_cap, dflt) ==
    LET t0 == [slots |-> NoSlots, runs |-> <<>>, cap |-> 0, alive_count |-> 0,
               free_head |-> FF_INVALID_INDEX, blk |-> 0]
    IN  IF initial_cap # 0 THEN TBL__grow(t0, initial_cap, dflt, TRUE) ELSE t0

TBL_free(t) ==
    [slots |-> NoSlots, runs |-> <<>>, cap |-> 0, alive_count |-> 0,
     free_head |-> FF_INVALID_INDEX, blk |-> 0]

\* A growth by 64 slots whatever the capacity.
TBL_growth_64(t) == 64

\* The amount TBL_create asks TBL__grow for.
TBL_growth(t) ==
    LET add == IF t.cap < 64 THEN 64 ELSE t.cap \div 2
    IN  IF add = 0 THEN 64 ELSE add

\* A create that pops the slot but leaves the handle it returns unset.
TBL_create_unset(t, init, dflt, moved) ==
    LET g == IF t.free_head = FF_INVALID_INDEX
             THEN TBL__grow(t, TBL_growth(t), dflt, moved)
             ELSE t
    IN  IF g.free_head = FF_INVALID_INDEX
        THEN [t |-> g, h |-> Handle(FF_INVALID_INDEX, 0)]
        ELSE LET idx == g.free_head
                 s   == Slot(g, idx)
                 p   == SlotPut(g, idx, [s EXCEPT !.alive = TRUE, !.payload = init])
             IN  [t |-> [p EXCEPT !.free_head   = s.next_free,
                                  !.alive_count = g.alive_count + 1],
                  h |-> Handle(FF_INVALID_INDEX, 0)]

\* Returns [t |-> the table afterwards, h |-> the handle returned].
TBL_create(t, init, dflt, moved) ==
    LET g == IF t.free_head = FF_INVALID_INDEX
             THEN TBL__grow(t, TBL_growth(t), dflt, moved)
             ELSE t
    IN  IF g.free_head = FF_INVALID_INDEX
        THEN [t |-> g, h |-> Handle(FF_INVALID_INDEX, 0)]
        ELSE LET idx == g.free_head
                 s   == Slot(g, idx)
                 p   == SlotPut(g, idx, [s EXCEPT !.alive = TRUE, !.payload = init])
             IN  [t |-> [p EXCEPT !.free_head   = s.next_free,
                                  !.alive_count = g.alive_count + 1],
                  h |-> Handle(idx, s.gen)]

TBL__valid(t, h) == (h.idx # FF_INVALID_INDEX) /\ (h.idx < t.cap)

\* An alive test that does not compare generations.
TBL_alive_anygen(t, h) ==
    IF ~TBL__valid(t, h) THEN FALSE ELSE Slot(t, h.idx).alive

TBL_alive(t, h) ==
    IF ~TBL__valid(t, h) THEN FALSE
    ELSE Slot(t, h.idx).alive /\ (Slot(t, h.idx).gen = h.gen)

\* A payload pointer is [blk, idx]: slot idx of storage block blk; the null
\* payload pointer is the one into block 0.
PayloadPtr(t, i) == [blk |-> t.blk, idx |-> i]

NullPayload == [blk |-> 0, idx |-> 0]

TBL_get(t, h) == IF ~TBL_alive(t, h) THEN NullPayload ELSE PayloadPtr(t, h.idx)

TBL_get_const(t, h) == IF ~TBL_alive(t, h) THEN NullPayload ELSE PayloadPtr(t, h.idx)

\* A destroy that leaves the generation of the slot as it was.
TBL_destroy_nobump(t, h) ==
    IF ~TBL_alive(t, h) THEN [t |-> t, ok |-> FALSE]
    ELSE LET s == Slot(t, h.idx)
             p == SlotPut(t, h.idx, [s EXCEPT !.alive = FALSE,
                                              !.next_free = t.free_head])
         IN  [t |-> [p EXCEPT !.free_head = h.idx,
                              !.alive_count = IF t.alive_count # 0
                                              THEN t.alive_count - 1 ELSE 0],
              ok |-> TRUE]

\* Returns [t |-> the table afterwards, ok |-> the boolean returned].
TBL_destroy(t, h) ==
    IF ~TBL_alive(t, h) THEN [t |-> t, ok |-> FALSE]
    ELSE LET s == Slot(t, h.idx)
             p == SlotPut(t, h.idx, [s EXCEPT !.alive = FALSE,
                                              !.gen = U32_inc(s.gen),
                                              !.next_free = t.free_head])
         IN  [t |-> [p EXCEPT !.free_head = h.idx,
                              !.alive_count = IF t.alive_count # 0
                                              THEN t.alive_count - 1 ELSE 0],
              ok |-> TRUE]

\* ------------------------------------------------------- expression heap
\* heap is the sequence of every ff_Expr node malloc has returned; a node's
\* address is its index, and free marks it freed (addresses are not reused,
\* so a dangling pointer is recognisable).
ExprNode(op, a, b, value, param_H) ==
    [op_type |-> op, a |-> a, b |-> b, value |-> value, param_H |-> param_H,
     freed |-> FALSE]

\* Each constructor returns [heap |-> the heap afterwards, p |-> the node].
exprInit_op(h, op_type, a, b) ==
    [heap |-> Append(h, ExprNode(op_type, a, b, Rat(0), ff_INVALIDHANDLE)),
     p    |-> Len(h) + 1]

\* A constructor that leaves the value of the node at zero.
exprInit_const_unset(h, value) ==
    [heap |-> Append(h, ExprNode("CONST", NULL, NULL, Rat(0), ff_INVALIDHANDLE)),
     p    |-> Len(h) + 1]

exprInit_const(h, value) ==
    [heap |-> Append(h, ExprNode("CONST", NULL, NULL, value, ff_INVALIDHANDLE)),
     p    |-> Len(h) + 1]

exprInit_param(h, param_H) ==
    [heap |-> Append(h, ExprNode("PARAM", NULL, NULL, Rat(0), param_H)),
     p    |-> Len(h) + 1]

exprInit_external_param(h, expr) ==
    [heap |-> Append(h, ExprNode("EXTR_PARAM", expr, NULL, Rat(0), ff_INVALIDHANDLE)),
     p    |-> Len(h) + 1]

TRY_EXTR_PARAM(h, expr, protect_params) ==
    IF protect_params THEN exprInit_external_param(h, expr)
    ELSE [heap |-> h, p |-> expr]

\* free(p) on m = [heap, fault]: freeing a freed node is a double free.
Free(m, p) ==
    IF m.fault THEN m
    ELSE IF m.heap[p].freed THEN [m EXCEPT !.fault = TRUE]
    ELSE [m EXCEPT !.heap[p].freed = TRUE]

\* expr_free on m = [heap, fault]; fault records a read of a freed node or
\* a double free.
RECURSIVE expr_free(_, _)
expr_free(m, expr) ==
    IF m.fault THEN m
    ELSE IF m.heap[expr].freed THEN [m EXCEPT !.fault = TRUE]
    ELSE LET e == m.heap[expr]
         IN  IF e.op_type = "EXTR_PARAM" THEN Free(m, expr)
             ELSE LET m1 == IF e.a # NULL THEN expr_free(m, e.a) ELSE m
                      m2 == IF e.b # NULL THEN expr_free(m1, e.b) ELSE m1
                  IN  Free(m2, expr)

\* The SIN and COS rules hand expr->a to the new node unwrapped.
RECURSIVE expr_derivative(_, _, _, _)
expr_derivative(h, expr, indp_param, protect_params) ==
    LET e  == h[expr]
        op == e.op_type
        D(hh, x) == expr_derivative(hh, x, indp_param, protect_params)
        W(hh, x) == TRY_EXTR_PARAM(hh, x, protect_params)
    IN  CASE op = "CONST" -> exprInit_const(h, Rat(0))
          [] op = "PARAM" ->
               IF ffGenHandle_Equals(e.param_H, indp_param)
               THEN exprInit_const(h, Rat(1)) ELSE exprInit_const(h, Rat(0))
          [] op = "EXTR_PARAM" -> D(h, e.a)
          [] op \in {"ADD", "SUB"} ->
               LET da == D(h, e.a)
                   db == D(da.heap, e.b)
               IN  exprInit_op(db.heap, op, da.p, db.p)
          [] op = "MUL" ->
               LET da == D(h, e.a)
                   wb == W(da.heap, e.b)
                   l  == exprInit_op(wb.heap, "MUL", da.p, wb.p)
                   wa == W(l.heap, e.a)
                   db == D(wa.heap, e.b)
                   r  == exprInit_op(db.heap, "MUL", wa.p, db.p)
               IN  exprInit_op(r.heap, "ADD", l.p, r.p)
          [] op = "DIV" ->
               LET da == D(h, e.a)
                   wb == W(da.heap, e.b)
                   l  == exprInit_op(wb.heap, "MUL", da.p, wb.p)
                   wa == W(l.heap, e.a)
                   db == D(wa.heap, e.b)
                   r  == exprInit_op(db.heap, "MUL", wa.p, db.p)
                   n  == exprInit_op(r.heap, "SUB", l.p, r.p)
                   b1 == W(n.heap, e.b)
                   b2 == W(b1.heap, e.b)
                   d  == exprInit_op(b2.heap, "MUL", b1.p, b2.p)
               IN  exprInit_op(d.heap, "DIV", n.p, d.p)
          [] op = "SIN" ->
               LET da == D(h, e.a)
                   c  == exprInit_op(da.heap, "COS", e.a, NULL)
               IN  exprInit_op(c.heap, "MUL", da.p, c.p)
          [] op = "COS" ->
               LET k  == exprInit_const(h, Rat(-1))
                   s  == exprInit_op(k.heap, "SIN", e.a, NULL)
                   l  == exprInit_op(s.heap, "MUL", k.p, s.p)
                   da == D(l.heap, e.a)
               IN  exprInit_op(da.heap, "MUL", l.p, da.p)
          [] op = "ASIN" ->
               LET da == D(h, e.a)
                   k  == exprInit_const(da.heap, Rat(1))
                   wa == W(k.heap, e.a)
                   q  == exprInit_op(wa.heap, "SQR", wa.p, NULL)
                   s  == exprInit_op(q.heap, "SUB", k.p, q.p)
                   r  == exprInit_op(s.heap, "SQRT", s.p, NULL)
               IN  exprInit_op(r.heap, "DIV", da.p, r.p)
          [] op = "ACOS" ->
               LET k0 == exprInit_const(h, Rat(-1))
                   da == D(k0.heap, e.a)
                   l  == exprInit_op(da.heap, "MUL", k0.p, da.p)
                   k  == exprInit_const(l.heap, Rat(1))
                   wa == W(k.heap, e.a)
                   q  == exprInit_op(wa.heap, "SQR", wa.p, NULL)
                   s  == exprInit_op(q.heap, "SUB", k.p, q.p)
                   r  == exprInit_op(s.heap, "SQRT", s.p, NULL)
               IN  exprInit_op(r.heap, "DIV", l.p, r.p)
          [] op = "SQRT" ->
               LET da == D(h, e.a)
                   k  == exprInit_const(da.heap, Rat(2))
                   wa == W(k.heap, e.a)
                   r  == exprInit_op(wa.heap, "SQRT", wa.p, NULL)
                   m  == exprInit_op(r.heap, "MUL", k.p, r.p)
               IN  exprInit_op(m.heap, "DIV", da.p, m.p)
          [] op = "SQR" ->
               LET k  == exprInit_const(h, Rat(2))
                   wa == W(k.heap, e.a)
                   da == D(wa.heap, e.a)
                   m  == exprInit_op(da.heap, "MUL", wa.p, da.p)
               IN  exprInit_op(m.heap, "MUL", k.p, m.p)
          [] OTHER -> [heap |-> h, p |-> NULL]

\* Does expr_evaluate(expr, t) stay within defined behaviour on heap h: every
\* node it reads is allocated and not freed, and every PARAM handle is alive
\* (ff_paramTBL_get_const returns NULL otherwise, which is dereferenced).
RECURSIVE EvalDefined(_, _, _)
EvalDefined(h, t, expr) ==
    /\ expr \in 1..Len(h)
    /\ ~h[expr].freed
    /\ LET e == h[expr]
       IN  CASE e.op_type = "CONST" -> TRUE
             [] e.op_type = "PARAM" -> TBL_get_const(t, e.param_H) # NullPayload
             [] e.op_type \in {"ADD", "SUB", "MUL", "DIV"} ->
                  EvalDefined(h, t, e.a) /\ EvalDefined(h, t, e.b)
             [] e.op_type \in {"EXTR_PARAM", "SIN", "COS", "ASIN", "ACOS",
                               "SQRT", "SQR"} -> EvalDefined(h, t, e.a)
             [] OTHER -> TRUE

RECURSIVE expr_evaluate(_, _, _)
expr_evaluate(h, t, expr) ==
    LET e  == h[expr]
        op == e.op_type
        A  == expr_evaluate(h, t, e.a)
        B  == expr_evaluate(h, t, e.b)
    IN  CASE op = "CONST" -> e.value
          [] op = "PARAM" -> Slot(t, TBL_get_const(t, e.param_H).idx).payload.def.v
          [] op = "EXTR_PARAM" -> A
          [] op = "ADD" -> FAdd(A, B)
          [] op = "SUB" -> FSub(A, B)
          [] op = "MUL" -> FMul(A, B)
          [] op = "DIV" -> FDiv(A, B)
          [] op = "SIN" -> FSin(A)
          [] op = "COS" -> FCos(A)
          [] op = "ASIN" -> FAsin(A)
          [] op = "ACOS" -> FAcos(A)
          [] op = "SQRT" -> FSqrt(A)
          [] op = "SQR" -> FMul(A, A)
          [] OTHER -> Rat(0)

\* ------------------------------------------------------------------ state
VARIABLES
    skt,       \* the ff_Sketch: three tables, link_outdated, scratch pointers
    heap,      \* the ff_Expr nodes allocated so far
    arrays,    \* the arrays allocated so far (scratch and derivative arrays)
    run,       \* "ready", "solving", "exited" (ff_ERROR), "freed" or "fault"
    last,      \* the last API call made: [op, arg, ret]
    issued,    \* per table, the handles add has returned
    deleted,   \* per table, the handles whose delete returned true
    cnt,       \* the number of successful adds and deletes per table, of solves
    sv,        \* the locals of the running ffSketch_Solve
    ex         \* the expression a client works on directly: [E, p, protect, D, stage]

vars == <<skt, heap, arrays, run, last, issued, deleted, cnt, sv, ex>>

\* --------------------------------------------------------- sketch facade
FF_POINT == 0
FF_LINE == 1
FF_CIRCLE == 2
FF_ARC == 3
FF_GENERAL == 0
FF_HORIZONTAL == 1
FF_COUNT == 2

ffSketch_Init(p_cap, e_cap, c_cap) ==
    [params         |-> TBL_init(p_cap, ff_Parameter_DEFAULT),
     entities       |-> TBL_init(e_cap, ff_Entity_DEFAULT),
     constraints    |-> TBL_init(c_cap, ff_Constraint_DEFAULT),
     link_outdated  |-> TRUE,
     normal_mtr     |-> NULL,
     itrm_sol       |-> NULL,
     cached_params  |-> NULL,
     tmp_contraints |-> NULL,
     tmp_params     |-> NULL]

ff_ParameterDef_IsValid(def) == TRUE

\* exit: the call ends in ff_ERROR, which exits the process; ret: the value
\* returned otherwise.  No case of the switch examines a handle field.
ff_EntityDef_IsValid(def) ==
    [exit |-> def.type \notin {FF_POINT, FF_LINE, FF_CIRCLE, FF_ARC},
     ret  |-> TRUE]

\* A validity test that looks at the equation only.
ff_ConstraintDef_IsValid_eqonly(def) == def.eq # NULL

ff_ConstraintDef_IsValid(def) ==
    IF def.eq = NULL THEN FALSE
    ELSE IF def.type >= FF_COUNT THEN FALSE
    ELSE TRUE

\* Each add returns [skt, h, exit]; each delete returns [skt, ok].
ffSketch_AddParameter(s, p_def, moved) ==
    IF ~ff_ParameterDef_IsValid(p_def)
    THEN [skt |-> s, h |-> ff_INVALIDHANDLE, exit |-> FALSE]
    ELSE LET r == TBL_create(s.params, [def |-> p_def], ff_Parameter_DEFAULT, moved)
         IN  [skt |-> [s EXCEPT !.params = r.t], h |-> r.h, exit |-> FALSE]

ffSketch_AddEntity(s, e_def, moved) ==
    LET v == ff_EntityDef_IsValid(e_def)
    IN  IF v.exit THEN [skt |-> s, h |-> ff_INVALIDHANDLE, exit |-> TRUE]
        ELSE IF ~v.ret THEN [skt |-> s, h |-> ff_INVALIDHANDLE, exit |-> FALSE]
        ELSE LET r == TBL_create(s.entities, [def |-> e_def], ff_Entity_DEFAULT, moved)
             IN  [skt |-> [s EXCEPT !.entities = r.t], h |-> r.h, exit |-> FALSE]

ffSketch_AddConstraint(s, c_def, moved) ==
    IF ~ff_ConstraintDef_IsValid(c_def)
    THEN [skt |-> s, h |-> ff_INVALIDHANDLE, exit |-> FALSE]
    ELSE LET cons == [def |-> c_def,
                      JMR |-> [err |-> Rat(0), dervs |-> NULL, dervs_y |-> NULL]]
             r    == TBL_create(s.constraints, cons, ff_Constraint_DEFAULT, moved)
         IN  [skt |-> [s EXCEPT !.constraints = r.t], h |-> r.h, exit |-> FALSE]

ffSketch_DeleteParameter(s, h) ==
    LET r == TBL_destroy(s.params, h)
    IN  [skt |-> [s EXCEPT !.params = r.t], ok |-> r.ok]

ffSketch_DeleteEntity(s, h) ==
    LET r == TBL_destroy(s.entities, h)
    IN  [skt |-> [s EXCEPT !.entities = r.t], ok |-> r.ok]

ffSketch_DeleteConstraint(s, h) ==
    LET r == TBL_destroy(s.constraints, h)
    IN  [skt |-> [s EXCEPT !.constraints = r.t], ok |-> r.ok]

ffSketch_GetParameter(s, h) == TBL_get(s.params, h)

ffSketch_GetEntity(s, h) == TBL_get(s.entities, h)

ffSketch_GetConstraint(s, h) == TBL_get(s.constraints, h)

\* ----------------------------------------------------------------- linker
\* Memory is m = [heap, arrays, fault]: arrays is the sequence of every array
\* malloc has returned, [data, freed]; fault records undefined behaviour (a
\* read past an array's end, of freed memory or of an indeterminate pointer,
\* or a double free).  malloc leaves an array's elements indeterminate.
UndefVal == <<0, -1>>

UndefPtr == [blk |-> -1, idx |-> -1]

UndefExpr == -1

Malloc(m, n, fill) ==
    [m |-> [m EXCEPT !.arrays = Append(@, [data |-> [k \in 1..n |-> fill],
                                           freed |-> FALSE])],
     p |-> Len(m.arrays) + 1]

FreeArr(m, p) ==
    IF m.fault THEN m
    ELSE IF m.arrays[p].freed THEN [m EXCEPT !.fault = TRUE]
    ELSE [m EXCEPT !.arrays[p].freed = TRUE]

\* arr[k] (k counted from 0): can it be read, and what it holds.
ArrReadable(m, arr, k) ==
    /\ arr \in 1..Len(m.arrays)
    /\ ~m.arrays[arr].freed
    /\ k >= 0 /\ k < Len(m.arrays[arr].data)

ArrAt(m, arr, k) == m.arrays[arr].data[k + 1]

RECURSIVE SortedSeq(_)
SortedSeq(S) ==
    IF S = {} THEN <<>>
    ELSE LET lo == CHOOSE x \in S : \A y \in S : x <= y
         IN  <<lo>> \o SortedSeq(S \ {lo})

\* The alive slots of a table, in the order a loop over 0..cap-1 meets them.
AliveIdx(t) == SortedSeq({i \in 0..(t.cap - 1) : Slot(t, i).alive})

\* for (i = k; i < n; i++) expr_free(dervs[i]);
RECURSIVE FreeDervEntries(_, _, _, _)
FreeDervEntries(m, dervs, k, n) ==
    IF m.fault \/ k >= n THEN m
    ELSE IF ~ArrReadable(m, dervs, k) THEN [m EXCEPT !.fault = TRUE]
    ELSE LET e == ArrAt(m, dervs, k)
         IN  IF e \notin 1..Len(m.heap) THEN [m EXCEPT !.fault = TRUE]
             ELSE FreeDervEntries(expr_free(m, e), dervs, k + 1, n)

\* The first loop of ffSketch_FreeToBaseState, over the alive constraint
\* slots cis: it frees params.alive_count entries of each derivative array.
RECURSIVE FreeConstraintLinks(_, _, _)
FreeConstraintLinks(s, m, cis) ==
    IF m.fault \/ cis = <<>> THEN m
    ELSE LET cons == Slot(s.constraints, Head(cis)).payload
             m1   == IF cons.JMR.dervs # NULL
                     THEN FreeArr(FreeDervEntries(m, cons.JMR.dervs, 0,
                                                  s.params.alive_count),
                                  cons.JMR.dervs)
                     ELSE m
             m2   == IF cons.JMR.dervs_y # NULL THEN FreeArr(m1, cons.JMR.dervs_y)
                     ELSE m1
         IN  FreeConstraintLinks(s, m2, Tail(cis))

FreeIfSet(m, p) == IF p # NULL THEN FreeArr(m, p) ELSE m

\* Returns [skt, m].
ffSketch_FreeToBaseState(s, m) ==
    LET m1 == FreeConstraintLinks(s, m, AliveIdx(s.constraints))
        m2 == FreeIfSet(m1, s.normal_mtr)
        m3 == FreeIfSet(m2, s.itrm_sol)
        m4 == FreeIfSet(m3, s.cached_params)
        m5 == FreeIfSet(m4, s.tmp_contraints)
        m6 == FreeIfSet(m5, s.tmp_params)
    IN  [skt |-> [s EXCEPT !.normal_mtr = NULL, !.itrm_sol = NULL,
                           !.cached_params = NULL, !.tmp_contraints = NULL,
                           !.tmp_params = NULL],
         m   |-> m6]

\* Returns [skt, m].
ffSketch_Free(s, m) ==
    LET f == ffSketch_FreeToBaseState(s, m)
    IN  [skt |-> [f.skt EXCEPT !.params = TBL_free(f.skt.params),
                               !.entities = TBL_free(f.skt.entities),
                               !.constraints = TBL_free(f.skt.constraints)],
         m   |-> f.m]

\* A handle of the slot with the generation left at zero.
LinkHandle_nogen(t, i) == Handle(i, 0)

\* The handle the linker builds for alive parameter slot i.
LinkHandle(t, i) == Handle(i, Slot(t, i).gen)

\* The inner loop of ffSketch_tryRelink for the handles phs[k..] of the alive
\* parameters: dervs[_p] = expr_derivative(eq, pH, true).  acc = [heap, ps]
\* holds the heap and the trees derived so far.
Derived(acc, d) == [heap |-> d.heap, ps |-> Append(acc.ps, d.p)]

RECURSIVE DeriveAll(_, _, _, _)
DeriveAll(acc, eq, phs, k) ==
    IF k > Len(phs) THEN acc
    ELSE DeriveAll(Derived(acc, expr_derivative(acc.heap, eq, phs[k], TRUE)),
                   eq, phs, k + 1)

\* The body of the constraint loop for alive slot i once its two arrays ad
\* and ay are allocated and its derivatives dv are built: dervs holds the
\* trees, dervs_y zeroes.  Returns [skt, m].
LinkStore(s, i, ad, ay, dv) ==
    [skt |-> [s EXCEPT !.constraints =
                 SlotPut(@, i, [Slot(@, i) EXCEPT !.payload.JMR.dervs = ad.p,
                                                  !.payload.JMR.dervs_y = ay.p])],
     m   |-> [ay.m EXCEPT !.heap = dv.heap,
                          !.arrays[ad.p].data = dv.ps,
                          !.arrays[ay.p].data = [k \in 1..Len(@) |-> Rat(0)]]]

LinkOne(s, m, i, phs) ==
    LET ad == Malloc(m, s.params.alive_count, UndefExpr)
        ay == Malloc(ad.m, s.params.alive_count, UndefVal)
    IN  LinkStore(s, i, ad, ay,
                  DeriveAll([heap |-> ay.m.heap, ps |-> <<>>],
                            Slot(s.constraints, i).payload.def.eq, phs, 1))

\* The constraint loop of ffSketch_tryRelink over the alive slots cis, with
\* phs the handles of the alive parameters in slot order; r = [skt, m].
RECURSIVE LinkConstraints(_, _, _)
LinkConstraints(r, cis, phs) ==
    IF cis = <<>> THEN r
    ELSE LinkConstraints(LinkOne(r.skt, r.m, Head(cis), phs), Tail(cis), phs)

PtrSeq(t, is) == [k \in 1..Len(is) |-> PayloadPtr(t, is[k])]

\* ffSketch_tryRelink after its loops: lk = [skt, m] is the sketch linked,
\* tc and tp the arrays malloc returned for tmp_contraints and tmp_params.
LinkScratch(lk, tc, tp, eq_cnt, par_cnt) ==
    LET m1 == [lk.m EXCEPT
                  !.arrays[tc].data =
                      PtrSeq(lk.skt.constraints, AliveIdx(lk.skt.constraints)),
                  !.arrays[tp].data = PtrSeq(lk.skt.params, AliveIdx(lk.skt.params))]
        nm == Malloc(m1, eq_cnt * eq_cnt, UndefVal)
        is == Malloc(nm.m, eq_cnt, UndefVal)
        cp == Malloc(is.m, par_cnt, UndefVal)
    IN  [skt |-> [lk.skt EXCEPT !.tmp_contraints = tc,
                                !.tmp_params     = tp,
                                !.normal_mtr     = nm.p,
                                !.itrm_sol       = is.p,
                                !.cached_params  = cp.p,
                                !.link_outdated  = FALSE],
         m   |-> cp.m]

\* ffSketch_tryRelink from the return of ffSketch_FreeToBaseState, f.
Relink(f) ==
    LET eq_cnt  == f.skt.constraints.alive_count
        par_cnt == f.skt.params.alive_count
        pis     == AliveIdx(f.skt.params)
        phs     == [k \in 1..Len(pis) |-> LinkHandle(f.skt.params, pis[k])]
        tc      == Malloc(f.m, eq_cnt, UndefPtr)
        tp      == Malloc(tc.m, par_cnt, UndefPtr)
    IN  IF f.m.fault THEN f
        ELSE LinkScratch(LinkConstraints([skt |-> f.skt, m |-> tp.m],
                                         AliveIdx(f.skt.constraints), phs),
                         tc.p, tp.p, eq_cnt, par_cnt)

\* Returns [skt, m].
\* A relink whatever link_outdated holds.
ffSketch_tryRelink_always(s, m) == Relink(ffSketch_FreeToBaseState(s, m))

ffSketch_tryRelink(s, m) ==
    IF ~s.link_outdated THEN [skt |-> s, m |-> m]
    ELSE Relink(ffSketch_FreeToBaseState(s, m))

\* ----------------------------------------------------------------- solver
\* Can the payload pointer ptr into table t be dereferenced: it refers to a
\* slot of the storage the table uses now.
PtrValid(t, ptr) == ptr.blk = t.blk /\ t.blk # 0 /\ ptr.idx \in 0..(t.cap - 1)

Faulted(s, m) == [skt |-> s, m |-> [m EXCEPT !.fault = TRUE], converged |-> FALSE]

\* The loop of ffSketch_calcError from constraint i on: [skt, m, converged].
RECURSIVE calcErrorFrom(_, _, _, _, _)
calcErrorFrom(s, m, tolerance, i, converged) ==
    IF i >= s.constraints.alive_count
    THEN [skt |-> s, m |-> m, converged |-> converged]
    ELSE IF ~ArrReadable(m, s.tmp_contraints, i) THEN Faulted(s, m)
    ELSE LET cons == ArrAt(m, s.tmp_contraints, i)
         IN  IF ~PtrValid(s.constraints, cons) THEN Faulted(s, m)
             ELSE LET eq == Slot(s.constraints, cons.idx).payload.def.eq
                  IN  IF ~EvalDefined(m.heap, s.params, eq) THEN Faulted(s, m)
                      ELSE LET err == expr_evaluate(m.heap, s.params, eq)
                               s2  == [s EXCEPT !.constraints =
                                          SlotPut(@, cons.idx,
                                              [Slot(@, cons.idx) EXCEPT
                                                  !.payload.JMR.err = err])]
                           IN  calcErrorFrom(s2, m, tolerance, i + 1,
                                   IF FGt(fabs(err), tolerance) THEN FALSE
                                   ELSE converged)

ffSketch_calcError(s, m, tolerance) == calcErrorFrom(s, m, tolerance, 0, TRUE)

\* The payload of the constraint tmp_contraints[i] points at.
LinkedConstraint(s, m, i) ==
    Slot(s.constraints, ArrAt(m, s.tmp_contraints, i).idx).payload

\* The Jacobian loop from entry k = i * params.alive_count + p on:
\* dervs_y[p] = expr_evaluate(dervs[p]).  Returns m.
RECURSIVE EvalDervsFrom(_, _, _)
EvalDervsFrom(s, m, k) ==
    LET np == s.params.alive_count
        i  == k \div np
        p  == k % np
    IN  IF np = 0 \/ i >= s.constraints.alive_count THEN m
        ELSE IF ~ArrReadable(m, s.tmp_contraints, i)
                \/ ~PtrValid(s.constraints, ArrAt(m, s.tmp_contraints, i))
             THEN [m EXCEPT !.fault = TRUE]
        ELSE LET cons == LinkedConstraint(s, m, i)
             IN  IF ~ArrReadable(m, cons.JMR.dervs, p)
                    \/ ~ArrReadable(m, cons.JMR.dervs_y, p)
                    \/ ~EvalDefined(m.heap, s.params, ArrAt(m, cons.JMR.dervs, p))
                 THEN [m EXCEPT !.fault = TRUE]
                 ELSE EvalDervsFrom(s,
                          [m EXCEPT !.arrays[cons.JMR.dervs_y].data[p + 1] =
                              expr_evaluate(m.heap, s.params,
                                            ArrAt(m, cons.JMR.dervs, p))],
                          k + 1)

\* tmp_contraints[i]->JMR.dervs_y[c]
DervY(s, m, i, c) == ArrAt(m, LinkedConstraint(s, m, i).JMR.dervs_y, c)

\* The inner sum of the normal matrix for entry (r, c), from column i on.
RECURSIVE NormalSum(_, _, _, _, _, _, _)
NormalSum(s, m, r, c, i, cols, sum) ==
    IF i >= cols THEN sum
    ELSE LET cV == DervY(s, m, c, i)
             rV == DervY(s, m, r, i)
         IN  NormalSum(s, m, r, c, i + 1, cols,
                 IF FIsZero(cV) \/ FIsZero(rV) THEN sum
                 ELSE FAdd(sum, FMul(rV, cV)))

\* normal_mtr after the "Start" loops: element r + c * rows is at index
\* r + c * rows + 1 of the sequence.
NormalMatrix(s, m, rows, cols) ==
    [k \in 1..(rows * rows) |->
        NormalSum(s, m, (k - 1) % rows, (k - 1) \div rows, 0, cols, Rat(0))]

\* The pivot search of one row: [pivot_row, max_value].
RECURSIVE FindPivot(_, _, _, _, _, _)
FindPivot(N, rows, row, candidate_row, pivot_row, max_value) ==
    IF candidate_row >= rows THEN [pivot_row |-> pivot_row, max_value |-> max_value]
    ELSE LET x == fabs(N[candidate_row + row * rows + 1])
         IN  IF FGt(x, max_value)
             THEN FindPivot(N, rows, row, candidate_row + 1, candidate_row, x)
             ELSE FindPivot(N, rows, row, candidate_row + 1, pivot_row, max_value)

SwapRows(N, rows, a, b) ==
    [k \in 1..Len(N) |->
        IF (k - 1) % rows = a THEN N[k - a + b]
        ELSE IF (k - 1) % rows = b THEN N[k - b + a]
        ELSE N[k]]

SwapErr(e, a, b) ==
    [k \in 1..Len(e) |-> IF k = a + 1 THEN e[b + 1]
                         ELSE IF k = b + 1 THEN e[a + 1] ELSE e[k]]

\* Elimination below the pivot of row, from target_row on; G = [N, e] with e
\* the JMR.err of tmp_contraints[0..rows-1].
RECURSIVE Eliminate(_, _, _, _)
Eliminate(G, rows, row, target_row) ==
    IF target_row >= rows THEN G
    ELSE IF BelowEpsilon(fabs(G.N[row + row * rows + 1]))
         THEN Eliminate(G, rows, row, target_row + 1)
    ELSE LET coefficient == FDiv(G.N[target_row + row * rows + 1],
                                 G.N[row + row * rows + 1])
             N2 == [k \in 1..Len(G.N) |->
                       IF (k - 1) % rows = target_row
                       THEN FSub(G.N[k], FMul(G.N[k - target_row + row], coefficient))
                       ELSE G.N[k]]
             e2 == [G.e EXCEPT ![target_row + 1] =
                                   FSub(@, FMul(G.e[row + 1], coefficient))]
         IN  Eliminate([N |-> N2, e |-> e2], rows, row, target_row + 1)

\* The body of the "Gaussian Solve" loop for one row.
GaussRow(G, rows, row) ==
    LET pv == FindPivot(G.N, rows, row, row, row, Rat(0))
    IN  IF BelowEpsilon(pv.max_value) THEN G
        ELSE Eliminate([N |-> SwapRows(G.N, rows, row, pv.pivot_row),
                        e |-> SwapErr(G.e, row, pv.pivot_row)],
                       rows, row, row + 1)

\* The "Gaussian Solve" loop from row on.
RECURSIVE GaussianSolve(_, _, _)
GaussianSolve(G, rows, row) ==
    IF row >= rows THEN G
    ELSE GaussianSolve(GaussRow(G, rows, row), rows, row + 1)

\* What a read of x yields: an element malloc left indeterminate reads as
\* the value garbage.
ReadVal(x, garbage) == IF x = UndefVal THEN garbage ELSE x

\* The inner loop of back substitution, from prev_row down to row + 1.
RECURSIVE BackSubInner(_, _, _, _, _, _, _)
BackSubInner(G, x, rows, row, prev_row, solution_value, garbage) ==
    IF prev_row <= row THEN solution_value
    ELSE BackSubInner(G, x, rows, row, prev_row - 1,
             FSub(solution_value,
                  FDiv(FMul(ReadVal(x[prev_row + 1], garbage),
                            G.N[row + prev_row * rows + 1]),
                       G.N[row + row * rows + 1])),
             garbage)

\* A back substitution without the test of the diagonal.
RECURSIVE BackSub_noskip(_, _, _, _, _)
BackSub_noskip(G, x, rows, row, garbage) ==
    IF row < 0 THEN x
    ELSE LET s0 == FDiv(G.e[row + 1], G.N[row + row * rows + 1])
             sol == BackSubInner(G, x, rows, row, rows - 1, s0, garbage)
         IN  BackSub_noskip(G, [x EXCEPT ![row + 1] = sol], rows, row - 1, garbage)

\* The "Back sub" loop from row down to 0: itrm_sol afterwards.
RECURSIVE BackSub(_, _, _, _, _)
BackSub(G, x, rows, row, garbage) ==
    IF row < 0 THEN x
    ELSE IF BelowEpsilon(fabs(G.N[row + row * rows + 1]))
         THEN BackSub(G, x, rows, row - 1, garbage)
    ELSE LET s0 == FDiv(G.e[row + 1], G.N[row + row * rows + 1])
             sol == BackSubInner(G, x, rows, row, rows - 1, s0, garbage)
         IN  BackSub(G, [x EXCEPT ![row + 1] = sol], rows, row - 1, garbage)

\* corr of column c, summed from row r on.
RECURSIVE Correction(_, _, _, _, _, _, _)
Correction(s, m, x, rows, c, r, corr) ==
    IF r >= rows THEN corr
    ELSE Correction(s, m, x, rows, c, r + 1,
                    FAdd(corr, FMul(x[r + 1], DervY(s, m, r, c))))

\* The parameter update loop from column c on: [skt, m].
RECURSIVE UpdateParams(_, _, _, _, _, _)
UpdateParams(s, m, x, rows, cols, c) ==
    IF c >= cols THEN [skt |-> s, m |-> m]
    ELSE IF ~ArrReadable(m, s.tmp_params, c)
            \/ ~PtrValid(s.params, ArrAt(m, s.tmp_params, c))
         THEN [skt |-> s, m |-> [m EXCEPT !.fault = TRUE]]
    ELSE LET corr == Correction(s, m, x, rows, c, 0, Rat(0))
             i    == ArrAt(m, s.tmp_params, c).idx
         IN  UpdateParams([s EXCEPT !.params =
                              SlotPut(@, i, [Slot(@, i) EXCEPT
                                                !.payload.def.v = FSub(@, corr)])],
                          m, x, rows, cols, c + 1)

\* JMR.err of tmp_contraints[0..rows-1], read and written back.
ErrVector(s, m, rows) == [k \in 1..rows |-> LinkedConstraint(s, m, k - 1).JMR.err]

RECURSIVE StoreErr(_, _, _, _)
StoreErr(s, m, e, k) ==
    IF k > Len(e) THEN s
    ELSE LET i == ArrAt(m, s.tmp_contraints, k - 1).idx
         IN  StoreErr([s EXCEPT !.constraints =
                          SlotPut(@, i, [Slot(@, i) EXCEPT !.payload.JMR.err = e[k]])],
                      m, e, k + 1)

\* One pass of the body of the step loop of ffSketch_Solve, with garbage the
\* value indeterminate elements of itrm_sol hold, in the order of the code.
\* Each part returns [skt, m, converged, uninit]: converged is what
\* ffSketch_calcError returned (the loop breaks when it is true); uninit
\* tells that an element of itrm_sol was read before anything was stored in
\* it.
Broken(s, m) == [skt |-> s, m |-> m, converged |-> FALSE, uninit |-> FALSE]

\* The parameter update, with x1 the itrm_sol back substitution left.
IterUpdate(s1, m1, G, x1, rows, cols, garbage) ==
    LET x2 == [k \in 1..Len(x1) |-> IF k <= rows THEN ReadVal(x1[k], garbage)
                                    ELSE x1[k]]
        m2 == [m1 EXCEPT !.arrays[s1.normal_mtr].data =
                             [k \in 1..Len(@) |-> IF k <= rows * rows THEN G.N[k]
                                                  ELSE @[k]],
                         !.arrays[s1.itrm_sol].data = x2]
    IN  UpdateParams(s1, m2, x2, rows, cols, 0)
            @@ [converged |-> FALSE, uninit |-> \E k \in 1..rows : x1[k] = UndefVal]

\* Back substitution on the eliminated system G.
IterBackSub(s, m1, G, rows, cols, garbage) ==
    IterUpdate(StoreErr(s, m1, G.e, 1), m1, G,
               BackSub(G, m1.arrays[s.itrm_sol].data, rows, rows - 1, garbage),
               rows, cols, garbage)

\* The normal matrix and its elimination, m1 holding the Jacobian.
IterNormal(s, m1, rows, cols, garbage) ==
    IF m1.fault THEN Broken(s, m1)
    ELSE IF ~ArrReadable(m1, s.normal_mtr, rows * rows - 1)
            \/ ~ArrReadable(m1, s.itrm_sol, rows - 1)
         THEN Broken(s, [m1 EXCEPT !.fault = TRUE])
    ELSE IterBackSub(s, m1,
                     GaussianSolve([N |-> NormalMatrix(s, m1, rows, cols),
                                    e |-> ErrVector(s, m1, rows)], rows, 0),
                     rows, cols, garbage)

\* From the return ce of ffSketch_calcError on.
IterJacobian(ce, rows, cols, garbage) ==
    IF ce.m.fault THEN Broken(ce.skt, ce.m)
    ELSE IF ce.converged
         THEN [skt |-> ce.skt, m |-> ce.m, converged |-> TRUE, uninit |-> FALSE]
    ELSE IterNormal(ce.skt, EvalDervsFrom(ce.skt, ce.m, 0), rows, cols, garbage)

SolveIteration(s, m, tolerance, rows, cols, garbage) ==
    IterJacobian(ffSketch_calcError(s, m, tolerance), rows, cols, garbage)

\* ------------------------------------------------------------ environment
\* The calls a client makes.  Equations are built with the exprInit_*
\* constructors from a shape: <<"CONST", v>>, <<"PARAM", h>>, <<op, x>> or
\* <<op, x, y>>.
RECURSIVE Build(_, _)
Build(h, shape) ==
    CASE shape[1] = "CONST" -> exprInit_const(h, shape[2])
      [] shape[1] = "PARAM" -> exprInit_param(h, shape[2])
      [] Len(shape) = 2 ->
           LET x == Build(h, shape[2])
           IN  exprInit_op(x.heap, shape[1], x.p, NULL)
      [] OTHER ->
           LET x == Build(h, shape[2])
               y == Build(x.heap, shape[3])
           IN  exprInit_op(y.heap, shape[1], x.p, y.p)

Tables == {"params", "entities", "constraints"}

Mem == [heap |-> heap, arrays |-> arrays, fault |-> FALSE]

\* The calls made so far that changed the sketch or the heap.
Calls == cnt.params.add + cnt.params.del + cnt.entities.add + cnt.entities.del
         + cnt.constraints.add + cnt.constraints.del + cnt.solve + cnt.rejected

\* The handles a client passes to delete: every handle it was given (the
\* deleted ones included) and the invalid handle.
DeleteInputs(t) == issued[t] \cup {ff_INVALIDHANDLE}

ParamValues == {Rat(0), Rat(1)}

EntityDef(ty, a, b, c) == [type |-> ty, h1 |-> a, h2 |-> b, h3 |-> c]

\* A point left at ff_EntityDef_DEFAULT (every handle invalid) and a type
\* outside the enumeration.
EntityDefs ==
    {EntityDef(FF_POINT, ff_INVALIDHANDLE, ff_INVALIDHANDLE, ff_INVALIDHANDLE),
     EntityDef(4, ff_INVALIDHANDLE, ff_INVALIDHANDLE, ff_INVALIDHANDLE)}

\* The equations: 1 = 0, p = 0, and q - p = 0 for handles the client holds.
EqShapes ==
    {<<"CONST", Rat(1)>>}
    \cup {<<"PARAM", p>> : p \in issued.params}
    \cup {<<"SUB", <<"PARAM", pq[2]>>, <<"PARAM", pq[1]>>>> :
             pq \in {x \in issued.params \X issued.params : x[1].idx < x[2].idx}}

\* The (equation shape, constraint type) pairs a client adds: every shape as
\* a GENERAL constraint, one HORIZONTAL, and one with a type out of range.
ConstraintInputs ==
    {<<sh, 0>> : sh \in EqShapes}
    \cup {<<<<"CONST", Rat(1)>>, 1>>, <<<<"CONST", Rat(1)>>, FF_COUNT>>}

\* realloc's outcomes when create has to grow existing storage: the block
\* moves or is extended in place.  The difference can only be seen through a
\* pointer into the block, and the only ones kept are those in linked.
Moves(t, linked) ==
    IF t.free_head = FF_INVALID_INDEX /\ t.blk # 0 /\ linked # NULL
    THEN BOOLEAN ELSE {TRUE}

Tolerance == <<1, 1000000>>

MaxSteps == 2

\* The tolerances a client passes: none at all, the usual one and a wide one.
Tolerances == {Rat(0), Tolerance, Rat(2)}

SolveInputs ==
    {[tolerance |-> t, max_steps |-> n] : t \in Tolerances, n \in {0, MaxSteps}}

\* What an indeterminate ff_float may hold.
Garbage == {Rat(0), Rat(1), NaN}

NoExpr == [E |-> NULL, p |-> ff_INVALIDHANDLE, protect |-> FALSE, D |-> NULL,
           stage |-> "none"]

NoFrame == [tolerance |-> Rat(0), max_steps |-> 0, step |-> 0, rows |-> 0,
            cols |-> 0, uninit |-> FALSE]

Noted(t, r) ==
    /\ issued' = IF r.h # ff_INVALIDHANDLE
                 THEN [issued EXCEPT ![t] = @ \cup {r.h}]
                 ELSE issued
    /\ UNCHANGED <<deleted, ex>>

CanAdd(t) == run = "ready" /\ Calls < MaxCalls /\ cnt[t].add < MaxAdds

CanDelete(t) == run = "ready" /\ Calls < MaxCalls /\ cnt[t].del < MaxDels

AddParameter(p_def, moved) ==
    /\ CanAdd("params")
    /\ LET r == ffSketch_AddParameter(skt, p_def, moved)
       IN  /\ skt' = r.skt
           /\ last' = [op |-> "AddParameter", arg |-> p_def, ret |-> r.h]
           /\ Noted("params", r)
           /\ cnt' = IF r.h # ff_INVALIDHANDLE
                     THEN [cnt EXCEPT !.params.add = @ + 1] ELSE cnt
    /\ UNCHANGED <<heap, arrays, run, sv, ex>>

AddEntity(e_def, moved) ==
    /\ CanAdd("entities")
    /\ LET r == ffSketch_AddEntity(skt, e_def, moved)
       IN  /\ skt' = r.skt
           /\ run' = IF r.exit THEN "exited" ELSE run
           /\ last' = [op |-> "AddEntity", arg |-> e_def, ret |-> r.h]
           /\ Noted("entities", r)
           /\ cnt' = IF r.h # ff_INVALIDHANDLE
                     THEN [cnt EXCEPT !.entities.add = @ + 1] ELSE cnt
    /\ UNCHANGED <<heap, arrays, sv, ex>>

\* The client builds the equation, then calls ffSketch_AddConstraint.
AddConstraint(shape, type, moved) ==
    /\ CanAdd("constraints")
    /\ LET b     == Build(heap, shape)
           c_def == [eq |-> b.p, type |-> type, tag |-> Len(shape)]
           r     == ffSketch_AddConstraint(skt, c_def, moved)
       IN  /\ heap' = b.heap
           /\ skt' = r.skt
           /\ last' = [op |-> "AddConstraint", arg |-> c_def, ret |-> r.h]
           /\ Noted("constraints", r)
           /\ cnt' = IF r.h # ff_INVALIDHANDLE
                     THEN [cnt EXCEPT !.constraints.add = @ + 1]
                     ELSE [cnt EXCEPT !.rejected = @ + 1]
    /\ UNCHANGED <<arrays, run, sv, ex>>

\* ffSketch_AddConstraint on a definition left at ff_ConstraintDef_DEFAULT.
AddConstraintNoEq(moved) ==
    /\ CanAdd("constraints")
    /\ LET c_def == [eq |-> NULL, type |-> 0, tag |-> 0]
           r     == ffSketch_AddConstraint(skt, c_def, moved)
       IN  /\ skt' = r.skt
           /\ last' = [op |-> "AddConstraint", arg |-> c_def, ret |-> r.h]
           /\ Noted("constraints", r)
           /\ cnt' = IF r.h # ff_INVALIDHANDLE
                     THEN [cnt EXCEPT !.constraints.add = @ + 1] ELSE cnt
    /\ UNCHANGED <<heap, arrays, run, sv, ex>>

Deleted(t, h, r, op) ==
    /\ skt' = r.skt
    /\ last' = [op |-> op, arg |-> h, ret |-> r.ok]
    /\ deleted' = IF r.ok THEN [deleted EXCEPT ![t] = @ \cup {h}] ELSE deleted
    /\ cnt' = IF r.ok THEN [cnt EXCEPT ![t].del = @ + 1] ELSE cnt
    /\ UNCHANGED <<heap, arrays, run, issued, sv, ex>>

DeleteParameter(h) ==
    /\ CanDelete("params")
    /\ Deleted("params", h, ffSketch_DeleteParameter(skt, h), "DeleteParameter")

DeleteEntity(h) ==
    /\ CanDelete("entities")
    /\ Deleted("entities", h, ffSketch_DeleteEntity(skt, h), "DeleteEntity")

DeleteConstraint(h) ==
    /\ CanDelete("constraints")
    /\ Deleted("constraints", h, ffSketch_DeleteConstraint(skt, h), "DeleteConstraint")

\* The last call added or removed a parameter or a constraint.
Edited ==
    \/ last.op \in {"AddParameter", "AddConstraint"} /\ last.ret # ff_INVALIDHANDLE
    \/ last.op \in {"DeleteParameter", "DeleteConstraint"} /\ last.ret = TRUE

\* ffSketch_Solve up to the step loop: the relink, lk being what
\* ffSketch_tryRelink returned, then the early return when there is no
\* constraint or no parameter.
\* What a caller can observe of the sketch when it calls ffSketch_Solve: the
\* residual of a live constraint is the value of its equation, and it is
\* within the tolerance when it is a number of magnitude at most tolerance.
Within(r, tolerance) == IsFinite(r) /\ ~FGt(fabs(r), tolerance)

ResidualsWithin(s, h, tolerance) ==
    \A i \in 0..(s.constraints.cap - 1) :
        Slot(s.constraints, i).alive =>
            /\ EvalDefined(h, s.params, Slot(s.constraints, i).payload.def.eq)
            /\ Within(expr_evaluate(h, s.params,
                                    Slot(s.constraints, i).payload.def.eq),
                      tolerance)

\* A test of the constraint count only.
NothingToSolve_rows(rows, cols) == rows = 0

\* if (!(rows && cols)) return true;
NothingToSolve(rows, cols) == ~(rows # 0 /\ cols # 0)

SolveEntered(in, lk, call) ==
    /\ skt' = lk.skt
    /\ cnt' = [cnt EXCEPT !.solve = @ + 1,
                          !.linked = @ \cup ((Len(heap) + 1)..Len(lk.m.heap))]
    /\ heap' = lk.m.heap
    /\ arrays' = lk.m.arrays
    /\ IF lk.m.fault
       THEN /\ run' = "fault"
            /\ last' = call @@ [ret |-> "fault"]
            /\ sv' = NoFrame
       ELSE IF NothingToSolve(lk.skt.constraints.alive_count,
                              lk.skt.params.alive_count)
       THEN /\ run' = "ready"
            /\ last' = call @@ [ret |-> TRUE]
            /\ sv' = NoFrame
       ELSE /\ run' = "solving"
            /\ last' = call @@ [ret |-> "pending"]
            /\ sv' = [tolerance |-> in.tolerance, max_steps |-> in.max_steps,
                      step |-> 0, rows |-> lk.skt.constraints.alive_count,
                      cols |-> lk.skt.params.alive_count, uninit |-> FALSE]

Solve(in) ==
    /\ run = "ready"
    /\ Calls < MaxCalls
    /\ SolveEntered(in, ffSketch_tryRelink(skt, Mem),
                    [op |-> "Solve", arg |-> in, relinked |-> skt.link_outdated,
                     edited |-> Edited, steps |-> 0, uninit |-> FALSE,
                     within |-> ResidualsWithin(skt, heap, in.tolerance),
                     before |-> skt.params])
    /\ UNCHANGED <<issued, deleted, ex>>

\* One pass of the step loop, it being what the pass left: step < max_steps
\* held.
SolveStepped(it) ==
    /\ skt' = it.skt
    /\ heap' = it.m.heap
    /\ arrays' = it.m.arrays
    /\ IF it.m.fault
       THEN /\ run' = "fault"
            /\ last' = [last EXCEPT !.ret = "fault", !.steps = sv.step]
            /\ sv' = NoFrame
       ELSE IF it.converged
       THEN /\ run' = "ready"
            /\ last' = [last EXCEPT !.ret = TRUE, !.steps = sv.step,
                                    !.uninit = sv.uninit \/ it.uninit]
            /\ sv' = NoFrame
       ELSE /\ run' = "solving"
            /\ last' = last
            /\ sv' = [sv EXCEPT !.step = @ + 1, !.uninit = sv.uninit \/ it.uninit]

SolveStep(garbage) ==
    /\ run = "solving"
    /\ sv.step < sv.max_steps
    /\ SolveStepped(SolveIteration(skt, Mem, sv.tolerance, sv.rows, sv.cols, garbage))
    /\ UNCHANGED <<issued, deleted, cnt, ex>>

\* The step loop ends with step = max_steps: converged is still false.
SolveReturn ==
    /\ run = "solving"
    /\ sv.step >= sv.max_steps
    /\ run' = "ready"
    /\ last' = [last EXCEPT !.ret = FALSE, !.steps = sv.step, !.uninit = sv.uninit]
    /\ sv' = NoFrame
    /\ UNCHANGED <<skt, heap, arrays, issued, deleted, cnt, ex>>

\* ffSketch_Free: the client's last call.
FreeSketch ==
    /\ run = "ready"
    /\ LET f == ffSketch_Free(skt, Mem)
       IN  /\ skt' = f.skt
           /\ heap' = f.m.heap
           /\ arrays' = f.m.arrays
           /\ run' = IF f.m.fault THEN "fault" ELSE "freed"
    /\ last' = [op |-> "Free", arg |-> NULL, ret |-> NULL]
    /\ UNCHANGED <<issued, deleted, cnt, sv, ex>>

\* ---------------------------------------------------------- specification
\* The capacities <<p_cap, e_cap, c_cap>> ffSketch_Init is called with.
InitCaps == {<<1, 0, 1>>}

NoCalls == [t \in Tables |-> {}]

\* The calls made so far, with linked the heap nodes ffSketch_tryRelink has
\* allocated.
NoCounts == [params |-> [add |-> 0, del |-> 0], entities |-> [add |-> 0, del |-> 0],
             constraints |-> [add |-> 0, del |-> 0], solve |-> 0, rejected |-> 0,
             linked |-> {}]

Init ==
    /\ \E caps \in InitCaps : skt = ffSketch_Init(caps[1], caps[2], caps[3])
    /\ heap = <<>>
    /\ arrays = <<>>
    /\ run = "ready"
    /\ last = [op |-> "Init", arg |-> NULL, ret |-> NULL]
    /\ issued = NoCalls
    /\ deleted = NoCalls
    /\ cnt = NoCounts
    /\ sv = NoFrame
    /\ ex = NoExpr

Next ==
    \/ \E v \in ParamValues, moved \in Moves(skt.params, skt.tmp_params) :
           AddParameter([v |-> v], moved)
    \/ \E d \in EntityDefs : AddEntity(d, TRUE)
    \/ \E in \in ConstraintInputs, moved \in Moves(skt.constraints, skt.tmp_contraints) :
           AddConstraint(in[1], in[2], moved)
    \/ \E moved \in Moves(skt.constraints, skt.tmp_contraints) : AddConstraintNoEq(moved)
    \/ \E h \in DeleteInputs("params") : DeleteParameter(h)
    \/ \E h \in DeleteInputs("entities") : DeleteEntity(h)
    \/ \E h \in DeleteInputs("constraints") : DeleteConstraint(h)
    \/ \E in \in SolveInputs : Solve(in)
    \/ \E g \in Garbage : SolveStep(g)
    \/ SolveReturn
    \/ FreeSketch

Spec == Init /\ [][Next]_vars

\* ------------------------------------------------ a table late in its life
\* The parameter table of a sketch made with capacity 1 whose slot 0 has been
\* through 2^32 - 2 rounds of add and delete and holds a parameter again: its
\* generation is 0xFFFFFFFF.  The client still has the first handle it was
\* given, Handle(0, 1), and the current one.
AgedHandle == Handle(0, -1)

AgedTable ==
    LET c == TBL_create(TBL_init(1, ff_Parameter_DEFAULT), ff_Parameter_DEFAULT,
                        ff_Parameter_DEFAULT, TRUE)
    IN  SlotPut(c.t, 0, [Slot(c.t, 0) EXCEPT !.gen = AgedHandle.gen,
                                             !.next_free = FF_INVALID_INDEX])

InitAged ==
    /\ skt = [ffSketch_Init(1, 0, 1) EXCEPT !.params = AgedTable]
    /\ heap = <<>>
    /\ arrays = <<>>
    /\ run = "ready"
    /\ last = [op |-> "AddParameter", arg |-> ff_Parameter_DEFAULT.def,
               ret |-> AgedHandle]
    /\ issued = [NoCalls EXCEPT !.params = {Handle(0, 1), AgedHandle}]
    /\ deleted = [NoCalls EXCEPT !.params = {Handle(0, 1)}]
    /\ cnt = NoCounts
    /\ sv = NoFrame
    /\ ex = NoExpr

\* The client goes on adding and deleting parameters and entities.
NextAged ==
    \/ \E v \in ParamValues, moved \in BOOLEAN : AddParameter([v |-> v], moved)
    \/ \E h \in DeleteInputs("params") : DeleteParameter(h)
    \/ \E d \in EntityDefs : AddEntity(d, TRUE)
    \/ \E h \in DeleteInputs("entities") : DeleteEntity(h)

SpecAged == InitAged /\ [][NextAged]_vars

\* ------------------------------------------------------- a table filled up
\* A table after TBL_init(n) and n adds of the same definition: the adds
\* pop slots 0, 1, ... n-1 off the free list TBL__grow threaded through
\* them, and leave every one alive.
FilledTable(n, payload) ==
    [slots       |-> NoSlots,
     runs        |-> <<[lo |-> 0, hi |-> n - 1, alive |-> TRUE,
                        last_next |-> FF_INVALID_INDEX, payload |-> payload]>>,
     cap         |-> n,
     alive_count |-> n,
     free_head   |-> FF_INVALID_INDEX,
     blk         |-> 1]

FullCaps == {FF_INVALID_INDEX - 1, FF_INVALID_INDEX}

FilledParameter == [def |-> [v |-> Rat(0)]]

FilledEntity ==
    [def |-> EntityDef(FF_POINT, ff_INVALIDHANDLE, ff_INVALIDHANDLE, ff_INVALIDHANDLE)]

\* Every constraint was added with the one equation 1 = 0, node 1.
FilledConstraint ==
    [def |-> [eq |-> 1, type |-> 0, tag |-> 2],
     JMR |-> [err |-> Rat(0), dervs |-> NULL, dervs_y |-> NULL]]

\* The handles of a filled table the client goes on using.
HeldHandles(n) == {Handle(0, 1), Handle(n - 1, 1)}

InitFull ==
    /\ \E t \in Tables, n \in FullCaps :
         /\ skt = [ffSketch_Init(1, 0, 1) EXCEPT
                      ![t] = CASE t = "params" -> FilledTable(n, FilledParameter)
                               [] t = "entities" -> FilledTable(n, FilledEntity)
                               [] OTHER -> FilledTable(n, FilledConstraint)]
         /\ heap = IF t = "constraints"
                   THEN exprInit_const(<<>>, Rat(1)).heap
                   ELSE <<>>
         /\ issued = [NoCalls EXCEPT ![t] = HeldHandles(n)]
    /\ arrays = <<>>
    /\ run = "ready"
    /\ last = [op |-> "Init", arg |-> NULL, ret |-> NULL]
    /\ deleted = NoCalls
    /\ cnt = NoCounts
    /\ sv = NoFrame
    /\ ex = NoExpr

\* The client goes on with the filled table only.
Filled(t) == skt[t].cap >= FF_INVALID_INDEX - 1

NextFull ==
    \/ \E v \in ParamValues, moved \in BOOLEAN :
           Filled("params") /\ AddParameter([v |-> v], moved)
    \/ \E d \in EntityDefs : Filled("entities") /\ AddEntity(d, TRUE)
    \/ \E in \in ConstraintInputs, moved \in BOOLEAN :
           Filled("constraints") /\ AddConstraint(in[1], in[2], moved)
    \/ \E moved \in BOOLEAN : Filled("constraints") /\ AddConstraintNoEq(moved)
    \/ \E h \in DeleteInputs("params") : Filled("params") /\ DeleteParameter(h)
    \/ \E h \in DeleteInputs("entities") : Filled("entities") /\ DeleteEntity(h)
    \/ \E h \in DeleteInputs("constraints") :
           Filled("constraints") /\ DeleteConstraint(h)

SpecFull == InitFull /\ [][NextFull]_vars

\* ------------------------------------------------- expressions on their own
\* A client builds an equation E, derives it, frees the derivative, and goes
\* on using E.
UnaryOps == {"SIN", "COS", "ASIN", "ACOS", "SQRT", "SQR"}

BinaryOps == {"ADD", "SUB", "MUL", "DIV"}

MaxDepth == 2

\* The sketch the equations refer to: parameters 0 and 1, in slots 0 and 1.
ExprSketch ==
    LET a == ffSketch_AddParameter(ffSketch_Init(1, 0, 1), [v |-> Rat(0)], TRUE)
    IN  ffSketch_AddParameter(a.skt, [v |-> Rat(1)], TRUE).skt

ExprParams == {Handle(0, 1), Handle(1, 1)}

\* The parameter table of that sketch with the values v0 and v1 written to
\* the two parameters.
ExprValues(v0, v1) ==
    LET a == ffSketch_AddParameter(ffSketch_Init(1, 0, 1), [v |-> Rat(v0)], TRUE)
    IN  ffSketch_AddParameter(a.skt, [v |-> Rat(v1)], TRUE).skt.params

Leaves == {<<"CONST", Rat(1)>>} \cup {<<"PARAM", h>> : h \in ExprParams}

RECURSIVE ExprShapes(_)
ExprShapes(d) ==
    IF d = 0 THEN Leaves
    ELSE LET S == ExprShapes(d - 1)
         IN  S \cup {<<op, x>> : op \in UnaryOps, x \in S}
               \cup {<<op, x, y>> : op \in BinaryOps, x \in S, y \in Leaves}

\* The nodes expr_free(expr) would visit on heap h.
RECURSIVE NodesOf(_, _)
NodesOf(h, expr) ==
    IF expr = NULL THEN {}
    ELSE IF h[expr].op_type = "EXTR_PARAM" THEN {expr}
    ELSE {expr} \cup NodesOf(h, h[expr].a) \cup NodesOf(h, h[expr].b)

InitExpr ==
    /\ skt = ExprSketch
    /\ \E shape \in ExprShapes(MaxDepth) :
         LET b == Build(<<>>, shape)
         IN  /\ heap = b.heap
             /\ ex = [E |-> b.p, p |-> ff_INVALIDHANDLE, protect |-> FALSE,
                      D |-> NULL, stage |-> "built"]
             /\ last = [op |-> "Build", arg |-> shape, ret |-> b.p]
    /\ arrays = <<>>
    /\ run = "ready"
    /\ issued = [NoCalls EXCEPT !.params = ExprParams]
    /\ deleted = NoCalls
    /\ cnt = NoCounts
    /\ sv = NoFrame

Derive(p, protect) ==
    /\ run = "ready"
    /\ ex.stage = "built"
    /\ LET d == expr_derivative(heap, ex.E, p, protect)
       IN  /\ heap' = d.heap
           /\ ex' = [ex EXCEPT !.p = p, !.protect = protect, !.D = d.p,
                               !.stage = "derived"]
           /\ last' = [op |-> "expr_derivative", arg |-> ex.E, ret |-> d.p]
    /\ UNCHANGED <<skt, arrays, run, issued, deleted, cnt, sv>>

FreeDerivative ==
    /\ run = "ready"
    /\ ex.stage = "derived"
    /\ LET m == expr_free(Mem, ex.D)
       IN  /\ heap' = m.heap
           /\ run' = IF m.fault THEN "fault" ELSE run
    /\ ex' = [ex EXCEPT !.stage = "released"]
    /\ last' = [op |-> "expr_free", arg |-> ex.D, ret |-> NULL]
    /\ UNCHANGED <<skt, arrays, issued, deleted, cnt, sv>>

EvaluateE ==
    /\ run = "ready"
    /\ ex.stage \in {"built", "derived", "released"}
    /\ IF EvalDefined(heap, skt.params, ex.E)
       THEN /\ last' = [op |-> "expr_evaluate", arg |-> ex.E,
                        ret |-> expr_evaluate(heap, skt.params, ex.E)]
            /\ run' = run
       ELSE /\ last' = [op |-> "expr_evaluate", arg |-> ex.E, ret |-> "fault"]
            /\ run' = "fault"
    /\ UNCHANGED <<skt, heap, arrays, issued, deleted, cnt, sv, ex>>

FreeE ==
    /\ run = "ready"
    /\ ex.stage = "released"
    /\ LET m == expr_free(Mem, ex.E)
       IN  /\ heap' = m.heap
           /\ run' = IF m.fault THEN "fault" ELSE run
    /\ ex' = [ex EXCEPT !.stage = "freed"]
    /\ last' = [op |-> "expr_free", arg |-> ex.E, ret |-> NULL]
    /\ UNCHANGED <<skt, arrays, issued, deleted, cnt, sv>>

\* The handles a derivative is taken with respect to: the two parameters and
\* a handle of slot 0 of another generation.
DeriveHandles == ExprParams \cup {Handle(0, 2)}

NextExpr ==
    \/ \E p \in DeriveHandles, protect \in BOOLEAN : Derive(p, protect)
    \/ FreeDerivative
    \/ EvaluateE
    \/ FreeE

SpecExpr == InitExpr /\ [][NextExpr]_vars

\* ------------------------------------------------------------- properties
TableOps == {"AddParameter", "AddEntity", "AddConstraint",
             "DeleteParameter", "DeleteEntity", "DeleteConstraint"}

TableDefault(t) ==
    CASE t = "params" -> ff_Parameter_DEFAULT
      [] t = "entities" -> ff_Entity_DEFAULT
      [] OTHER -> ff_Constraint_DEFAULT

\* Handle h names slot h.idx of table t, which is alive and of h's generation.
Matches(t, h) ==
    /\ h.idx \in 0..(t.cap - 1)
    /\ Slot(t, h.idx).alive
    /\ Slot(t, h.idx).gen = h.gen

\* The handles a lookup is tried with: those issued (live, deleted, stale),
\* the invalid handle, one past the end of the table, and generations and
\* indices that were never issued.
Probes(t) ==
    issued[t] \cup {ff_INVALIDHANDLE, Handle(skt[t].cap, 1), Handle(0, 0),
                    Handle(0, 2), Handle(1, 1), Handle(1, 2)}

\* C1: in every table of a sketch in use a handle returned by add is alive,
\* and get returns its slot, for as long as it has not been deleted; and
\* every add or delete,
\* growth of the slot storage included, leaves the payload of every other
\* live handle as it was, a new handle's payload being the definition added.
C1_HandleStaysAlive ==
    /\ [](run \notin {"freed", "fault"} =>
             \A t \in Tables : \A h \in issued[t] \ deleted[t] :
                 /\ TBL_alive(skt[t], h)
                 /\ TBL_get(skt[t], h) = PayloadPtr(skt[t], h.idx))
    /\ [][last'.op \in TableOps =>
             \A t \in Tables :
                 /\ \A h \in issued'[t] \ issued[t] :
                        Slot(skt'[t], h.idx).payload.def = last'.arg
                 /\ \A h \in issued[t] \ deleted'[t] :
                        Slot(skt'[t], h.idx).payload = Slot(skt[t], h.idx).payload]_vars

\* A first handle that outlived a growth of its table and a delete of
\* another handle.
C1_Witness ==
    \E h \in issued.params \ deleted.params :
        /\ h = Handle(0, 1)
        /\ Len(skt.params.runs) > 1
        /\ deleted.params # {}
        /\ TBL_alive(skt.params, h)

\* C2: once delete(h) has returned true, alive(h) is false and get(h) is
\* null in every later state, so no later add returns h again.
C2_DeletedStaysDead ==
    \A t \in Tables : \A h \in deleted[t] :
        /\ ~TBL_alive(skt[t], h)
        /\ TBL_get(skt[t], h) = NullPayload

\* C3: with a handle that matches no live slot, get and get_const return
\* null and delete returns false and leaves the table as it was.
C3_DeadHandleRejected ==
    \A t \in Tables : \A h \in Probes(t) :
        ~Matches(skt[t], h) =>
            /\ TBL_get(skt[t], h) = NullPayload
            /\ TBL_get_const(skt[t], h) = NullPayload
            /\ ~TBL_destroy(skt[t], h).ok
            /\ TBL_destroy(skt[t], h).t = skt[t]

\* A delete was refused for a deleted handle whose slot is in use again.
C3_Witness ==
    /\ last.op = "DeleteParameter"
    /\ last.ret = FALSE
    /\ last.arg \in deleted.params
    /\ Slot(skt.params, last.arg.idx).alive

\* C4: in every state of every table the invalid handle is not alive, get
\* of it is null and delete of it returns false; and an add that takes a
\* slot returns a handle other than the invalid handle.
C4_InvalidHandleMatchesNothing ==
    \A t \in Tables :
        /\ ~TBL_alive(skt[t], ff_INVALIDHANDLE)
        /\ TBL_get(skt[t], ff_INVALIDHANDLE) = NullPayload
        /\ ~TBL_destroy(skt[t], ff_INVALIDHANDLE).ok
        /\ ff_INVALIDHANDLE \notin issued[t]
        /\ \A moved \in BOOLEAN :
               LET c == TBL_create(skt[t], TableDefault(t), TableDefault(t), moved)
               IN  c.t.alive_count > skt[t].alive_count => c.h # ff_INVALIDHANDLE

\* A delete of the invalid handle was refused by a table that holds entities.
C4_Witness ==
    /\ last.op = "DeleteEntity"
    /\ last.arg = ff_INVALIDHANDLE
    /\ last.ret = FALSE
    /\ skt.entities.alive_count > 0

\* C5: a table's capacity never exceeds 65535; add on a table whose 65535
\* slots are all alive returns the invalid handle and leaves the table as
\* it was, and every live handle issued before is still alive.
C5_CapacityExhaustion ==
    \A t \in Tables :
        /\ skt[t].cap <= 65535
        /\ (skt[t].cap = 65535 /\ skt[t].alive_count = 65535) =>
               /\ \A moved \in BOOLEAN :
                      LET c == TBL_create(skt[t], TableDefault(t), TableDefault(t), moved)
                      IN  c.h = ff_INVALIDHANDLE /\ c.t = skt[t]
               /\ \A h \in issued[t] \ deleted[t] : TBL_alive(skt[t], h)

\* An add was refused by a parameter table that had grown to 65535 slots,
\* all alive.
C5_Witness ==
    /\ last.op = "AddParameter"
    /\ last.ret = ff_INVALIDHANDLE
    /\ skt.params.cap = 65535
    /\ skt.params.alive_count = 65535
    /\ Len(skt.params.runs) > 1

\* C6: every sketch-level add and delete that succeeds leaves link_outdated
\* true when it returns.
C6_EditMarksLinkOutdated ==
    (\/ last.op \in {"AddParameter", "AddEntity", "AddConstraint"}
           /\ last.ret # ff_INVALIDHANDLE
     \/ last.op \in {"DeleteParameter", "DeleteEntity", "DeleteConstraint"}
           /\ last.ret = TRUE) =>
        skt.link_outdated

\* The link holds what ffSketch_tryRelink would build now: one entry per live
\* constraint and per live parameter in the compact arrays, and for every
\* live constraint a derivative array of one allocated tree per live
\* parameter.
LinkCurrent ==
    /\ skt.tmp_contraints # NULL
    /\ skt.tmp_params # NULL
    /\ arrays[skt.tmp_contraints].data = PtrSeq(skt.constraints, AliveIdx(skt.constraints))
    /\ arrays[skt.tmp_params].data = PtrSeq(skt.params, AliveIdx(skt.params))
    /\ \A k \in 1..Len(AliveIdx(skt.constraints)) :
           LET cons == Slot(skt.constraints, AliveIdx(skt.constraints)[k]).payload
           IN  /\ cons.JMR.dervs # NULL
               /\ ~arrays[cons.JMR.dervs].freed
               /\ Len(arrays[cons.JMR.dervs].data) = skt.params.alive_count
               /\ \A e \in 1..Len(arrays[cons.JMR.dervs].data) :
                      /\ arrays[cons.JMR.dervs].data[e] \in 1..Len(heap)
                      /\ ~heap[arrays[cons.JMR.dervs].data[e]].freed

\* C7: when a Solve that follows an add or a remove of a parameter or a
\* constraint, made after an earlier Solve, is about to take its first step,
\* the link is current.
C7_SolveRelinksAfterEdit ==
    (/\ run = "solving"
     /\ sv.step = 0
     /\ sv.max_steps > 0
     /\ cnt.solve >= 2
     /\ last.edited) => LinkCurrent

\* The definition names a type outside the enumeration, or leaves a handle
\* its type requires at the invalid handle.
EntityDefInvalid(def) ==
    \/ def.type \notin {FF_POINT, FF_LINE, FF_CIRCLE, FF_ARC}
    \/ def.type \in {FF_POINT, FF_LINE, FF_CIRCLE}
          /\ ff_INVALIDHANDLE \in {def.h1, def.h2}
    \/ def.type = FF_ARC /\ ff_INVALIDHANDLE \in {def.h1, def.h2, def.h3}

\* C8: AddEntity on a definition whose type is out of range, or in which a
\* handle its type requires is the invalid handle, returns the invalid
\* handle to its caller.
C8_AddEntityValidates ==
    (last.op = "AddEntity" /\ EntityDefInvalid(last.arg)) =>
        /\ last.ret = ff_INVALIDHANDLE
        /\ run = "ready"

\* The definitions AddConstraint is tried with in each state.
ConstraintProbes == [eq : {NULL, 1}, type : 0..3, tag : {0}]

ConstraintRejected(d, moved) ==
    LET r == ffSketch_AddConstraint(skt, d, moved)
    IN  r.h = ff_INVALIDHANDLE /\ r.skt.constraints = skt.constraints

ConstraintStored(d, moved) ==
    LET r == ffSketch_AddConstraint(skt, d, moved)
    IN  /\ TBL_alive(r.skt.constraints, r.h)
        /\ Slot(r.skt.constraints, r.h.idx).payload.def = d
        /\ Slot(r.skt.constraints, r.h.idx).payload.JMR.dervs = NULL
        /\ Slot(r.skt.constraints, r.h.idx).payload.JMR.dervs_y = NULL

\* C9 (as stated): AddConstraint with a null equation or a kind outside the
\* defined kinds returns the invalid handle and leaves the constraint table
\* as it was; with an equation and a defined kind it returns a live handle
\* whose slot holds a copy of the definition and null derivative arrays.
C9_AddConstraintAsStated ==
    \A d \in ConstraintProbes, moved \in BOOLEAN :
        IF d.eq = NULL \/ d.type \notin {FF_GENERAL, FF_HORIZONTAL}
        THEN ConstraintRejected(d, moved)
        ELSE ConstraintStored(d, moved)

\* C9 (amended): as stated, except that on a constraint table whose 65535
\* slots are all alive a valid definition too gets the invalid handle and
\* the table is left as it was.
C9_AddConstraint ==
    \A d \in ConstraintProbes, moved \in BOOLEAN :
        IF d.eq = NULL \/ d.type \notin {FF_GENERAL, FF_HORIZONTAL}
        THEN ConstraintRejected(d, moved)
        ELSE IF skt.constraints.cap = 65535 /\ skt.constraints.alive_count = 65535
        THEN ConstraintRejected(d, moved)
        ELSE ConstraintStored(d, moved)

\* AddConstraint refused a valid definition because the table was full.
C9_Witness ==
    /\ last.op = "AddConstraint"
    /\ last.arg.eq # NULL
    /\ last.arg.type \in {FF_GENERAL, FF_HORIZONTAL}
    /\ last.ret = ff_INVALIDHANDLE
    /\ skt.constraints.alive_count = 65535

\* C10: after the derivative of E taken with protect = true has been freed
\* with expr_free, every node of E is still allocated, E can be evaluated,
\* and freeing E frees each of its nodes once.
C10_FreeDerivativeKeepsE ==
    (ex.stage = "released" /\ ex.protect) =>
        /\ run = "ready"
        /\ \A n \in NodesOf(heap, ex.E) : ~heap[n].freed
        /\ EvalDefined(heap, skt.params, ex.E)
        /\ ~expr_free(Mem, ex.E).fault

\* ------------------------------------------- a constraint without a root
\* The sketch of one parameter p and the one constraint p * p + 1 = 0, built
\* by ffSketch_AddParameter and ffSketch_AddConstraint, and then solved.
RootlessShape == <<"ADD", <<"SQR", <<"PARAM", Handle(0, 1)>>>>, <<"CONST", Rat(1)>>>>

LongSteps == 10

RootlessInputs ==
    {[tolerance |-> t, max_steps |-> n] : t \in Tolerances, n \in {MaxSteps, LongSteps}}

InitRootless ==
    /\ \E v \in ParamValues :
         LET b == Build(<<>>, RootlessShape)
         IN  /\ heap = b.heap
             /\ skt = LET s == ffSketch_Init(1, 0, 1)
                       a == ffSketch_AddParameter(s, [v |-> v], TRUE).skt
                   IN  ffSketch_AddConstraint(
                           a, [eq |-> b.p, type |-> FF_GENERAL, tag |-> 0], TRUE).skt
             /\ last = [op |-> "AddConstraint", arg |-> b.p, ret |-> Handle(0, 1)]
    /\ arrays = <<>>
    /\ run = "ready"
    /\ issued = [NoCalls EXCEPT !.params = {Handle(0, 1)},
                                !.constraints = {Handle(0, 1)}]
    /\ deleted = NoCalls
    /\ cnt = NoCounts
    /\ sv = NoFrame
    /\ ex = NoExpr

NextRootless ==
    \/ \E in \in RootlessInputs : Solve(in)
    \/ \E g \in Garbage : SolveStep(g)
    \/ SolveReturn

SpecRootless == InitRootless /\ [][NextRootless]_vars

\* ------------------------------------------------ pairs of parameters
\* A sketch of five parameters, built by ffSketch_AddParameter, to which the
\* client adds constraints q - p = 0, from which it deletes the first or the
\* last parameter, to which it adds a parameter again, and which it solves.
RECURSIVE AddParameters(_, _, _)
AddParameters(s, vs, k) ==
    IF k > Len(vs) THEN s
    ELSE AddParameters(ffSketch_AddParameter(s, [v |-> vs[k]], TRUE).skt, vs, k + 1)

PairParams == {Handle(i, 1) : i \in 0..4}

\* q - p for the parameters of slots 0 and 1, 2 and 3, 1 and 2.
PairShapes ==
    {<<"SUB", <<"PARAM", Handle(pq[2], 1)>>, <<"PARAM", Handle(pq[1], 1)>>>> :
        pq \in {<<0, 1>>, <<2, 3>>, <<1, 2>>}}

InitPairs ==
    /\ \E a \in ParamValues, b \in ParamValues :
         skt = AddParameters(ffSketch_Init(1, 0, 1),
                             <<a, b, Rat(1), Rat(3), Rat(1)>>, 1)
    /\ heap = <<>>
    /\ arrays = <<>>
    /\ run = "ready"
    /\ last = [op |-> "AddParameter", arg |-> [v |-> Rat(1)], ret |-> Handle(4, 1)]
    /\ issued = [NoCalls EXCEPT !.params = PairParams]
    /\ deleted = NoCalls
    /\ cnt = NoCounts
    /\ sv = NoFrame
    /\ ex = NoExpr

NextPairs ==
    \/ \E sh \in PairShapes, moved \in Moves(skt.constraints, skt.tmp_contraints) :
           AddConstraint(sh, FF_GENERAL, moved)
    \/ \E h \in {Handle(0, 1), Handle(4, 1)} : DeleteParameter(h)
    \/ \E moved \in Moves(skt.params, skt.tmp_params) :
           AddParameter([v |-> Rat(0)], moved)
    \/ \E in \in SolveInputs : Solve(in)
    \/ \E g \in Garbage : SolveStep(g)
    \/ SolveReturn

SpecPairs == InitPairs /\ [][NextPairs]_vars

\* -------------------------------------------- properties, continued
\* Node n of the heap is a CONST of value v.
IsConst(h, n, v) == h[n].op_type = "CONST" /\ h[n].value = v

PolyOps == {"CONST", "PARAM", "ADD", "SUB", "MUL", "SQR"}

Polynomial(h, expr) == \A n \in NodesOf(h, expr) : h[n].op_type \in PolyOps

\* The integer values the parameters take.
ParamInts == {-2, 0, 1, 3}

\* The value of a polynomial at the integer point v (v[i + 1] is the value
\* of the parameter of slot i), in integer arithmetic.
RECURSIVE IntValue(_, _, _)
IntValue(h, n, v) ==
    LET e == h[n]
    IN  CASE e.op_type = "CONST" -> e.value[1]
          [] e.op_type = "PARAM" -> v[e.param_H.idx + 1]
          [] e.op_type = "ADD" -> IntValue(h, e.a, v) + IntValue(h, e.b, v)
          [] e.op_type = "SUB" -> IntValue(h, e.a, v) - IntValue(h, e.b, v)
          [] e.op_type = "MUL" -> IntValue(h, e.a, v) * IntValue(h, e.b, v)
          [] e.op_type = "SQR" -> IntValue(h, e.a, v) * IntValue(h, e.a, v)

\* The partial derivative of a polynomial with respect to the parameter p at
\* the integer point v, by the sum, product and power rules.
RECURSIVE IntPartial(_, _, _, _)
IntPartial(h, n, p, v) ==
    LET e == h[n]
    IN  CASE e.op_type = "CONST" -> 0
          [] e.op_type = "PARAM" ->
               IF e.param_H.idx = p.idx /\ e.param_H.gen = p.gen THEN 1 ELSE 0
          [] e.op_type = "ADD" -> IntPartial(h, e.a, p, v) + IntPartial(h, e.b, p, v)
          [] e.op_type = "SUB" -> IntPartial(h, e.a, p, v) - IntPartial(h, e.b, p, v)
          [] e.op_type = "MUL" ->
               IntPartial(h, e.a, p, v) * IntValue(h, e.b, v)
                 + IntValue(h, e.a, v) * IntPartial(h, e.b, p, v)
          [] e.op_type = "SQR" -> 2 * IntValue(h, e.a, v) * IntPartial(h, e.a, p, v)

SolveCalled == run = "ready" /\ cnt'.solve = cnt.solve + 1

\* C13: with no live constraint or no live parameter, Solve returns true for
\* every tolerance and every max_steps, zero included, and changes no
\* parameter value.
C13_NothingToSolve ==
    [][(/\ SolveCalled
        /\ skt.constraints.alive_count = 0 \/ skt.params.alive_count = 0)
       => /\ run' = "ready"
          /\ last'.ret = TRUE
          /\ skt'.params = skt.params]_vars

\* Solve returned from a sketch with a live constraint and no parameter,
\* called with max_steps = 0 and a tolerance of zero.
C13_Witness ==
    /\ last.op = "Solve"
    /\ run = "ready"
    /\ last.ret = TRUE
    /\ last.arg = [tolerance |-> Rat(0), max_steps |-> 0]
    /\ skt.constraints.alive_count > 0
    /\ skt.params.alive_count = 0
\* The last call was a Solve and it has returned or failed; it returned r.
SolveDone == last.op = "Solve" /\ run # "solving"

SolveReturned(r) == last.op = "Solve" /\ run = "ready" /\ last.ret = r

\* C14: for a tolerance above zero and any max_steps, a Solve called when
\* the residual of every live constraint is within the tolerance returns
\* true and leaves every parameter value as it was.
C14_ConvergedInputReturnsTrue ==
    (/\ SolveDone
     /\ FGt(last.arg.tolerance, Rat(0))
     /\ last.within)
    => /\ SolveReturned(TRUE)
       /\ skt.params = last.before
\* C15: the constraint p * p + 1 = 0 has a residual of at least 1 at every
\* p, so with a tolerance below 1 no step finds the residual within the
\* tolerance: Solve then performs exactly max_steps steps and returns false
\* (for max_steps = 10 started at p = 0 in particular).
C15_NonConvergence ==
    (SolveDone /\ FGt(Rat(1), last.arg.tolerance))
    => /\ SolveReturned(FALSE)
       /\ last.steps = last.arg.max_steps
\* The value of the parameter of slot i in the table t.
ValueIn(t, i) == Slot(t, i).payload.def.v

\* The slots of the two parameters of the equation eq, when it has the form
\* q - p over two distinct live parameters: <<p, q>>, or <<>> otherwise.
PairOf(eq) ==
    IF /\ heap[eq].op_type = "SUB"
       /\ heap[heap[eq].a].op_type = "PARAM"
       /\ heap[heap[eq].b].op_type = "PARAM"
       /\ TBL_alive(skt.params, heap[heap[eq].a].param_H)
       /\ TBL_alive(skt.params, heap[heap[eq].b].param_H)
       /\ heap[heap[eq].a].param_H.idx # heap[heap[eq].b].param_H.idx
    THEN <<heap[heap[eq].b].param_H.idx, heap[heap[eq].a].param_H.idx>>
    ELSE <<>>

LivePairs ==
    {i \in 0..(skt.constraints.cap - 1) : Slot(skt.constraints, i).alive}

PairAt(i) == PairOf(Slot(skt.constraints, i).payload.def.eq)

\* Every live constraint has the form q - p and no parameter occurs in two.
PairSketch ==
    /\ LivePairs # {}
    /\ \A i \in LivePairs : PairAt(i) # <<>>
    /\ \A i \in LivePairs, j \in LivePairs :
           i # j => {PairAt(i)[1], PairAt(i)[2]} \cap {PairAt(j)[1], PairAt(j)[2]} = {}

Mean(x, y) == FDiv(FAdd(x, y), Rat(2))

\* The tolerance is below every difference q - p that is not zero.
TightFor(t, tolerance) ==
    \A i \in LivePairs :
        LET d == FSub(ValueIn(t, PairAt(i)[2]), ValueIn(t, PairAt(i)[1]))
        IN  d = Rat(0) \/ FGt(fabs(d), tolerance)

\* C16: on a sketch whose constraints are each q - p = 0 over two distinct
\* parameters, no parameter in two constraints, a Solve with max_steps >= 2
\* (and a tolerance below the differences) returns true, leaves p and q of
\* each constraint at the mean of their values at the call, and leaves the
\* parameters of no constraint as they were.
C16_PairsMeetAtMean ==
    (/\ SolveDone
     /\ last.arg.max_steps >= 2
     /\ PairSketch
     /\ TightFor(last.before, last.arg.tolerance))
    => /\ SolveReturned(TRUE)
       /\ \A i \in LivePairs :
              LET m == Mean(ValueIn(last.before, PairAt(i)[1]),
                            ValueIn(last.before, PairAt(i)[2]))
              IN  /\ ValueIn(skt.params, PairAt(i)[1]) = m
                  /\ ValueIn(skt.params, PairAt(i)[2]) = m
       /\ \A h \in PairParams :
              (\A i \in LivePairs : h.idx \notin {PairAt(i)[1], PairAt(i)[2]})
              => ValueIn(skt.params, h.idx) = ValueIn(last.before, h.idx)
\* The equation eq holds a PARAM node whose handle is dead.
DeadReference(eq) ==
    \E n \in NodesOf(heap, eq) :
        heap[n].op_type = "PARAM" /\ ~TBL_alive(skt.params, heap[n].param_H)

\* C17: an equation with a PARAM node whose handle is dead evaluates to a
\* value without an access through the failed lookup, and so a Solve on a
\* sketch with a live constraint that refers to a deleted parameter makes no
\* invalid access.
C17_DeadParameterEvaluates ==
    \A i \in LivePairs :
        DeadReference(Slot(skt.constraints, i).payload.def.eq)
        => /\ EvalDefined(heap, skt.params, Slot(skt.constraints, i).payload.def.eq)
           /\ (last.op = "Solve" /\ last.relinked) => run # "fault"
\* Every array and every expression node the linker allocated is freed.
LinksReleased ==
    /\ \A a \in 1..Len(arrays) : arrays[a].freed
    /\ \A n \in cnt.linked : heap[n].freed

\* C18: when ffSketch_Free returns after any adds, deletes and Solves, every
\* derivative tree, derivative array and derivative-value array the linker
\* allocated has been freed exactly once, those of a constraint deleted
\* after the relink and those of a slot reused since included.
C18_FreeReleasesLinks == last.op = "Free" => (run = "freed" /\ LinksReleased)
\* The Solve that relinked has not yet evaluated a derivative: it is about
\* to take its first step or has returned without one.
JustRelinked ==
    /\ last.op = "Solve"
    /\ last.relinked
    /\ run \in {"ready", "solving"}
    /\ sv.step = 0
    /\ last.steps = 0

\* The slots the pointers of the compact array arr point to, in its order.
CompactSlots(arr) == [k \in 1..Len(arrays[arr].data) |-> arrays[arr].data[k].idx]

\* seq lists exactly the live slots of table t, in ascending order.
ListsLive(seq, t) ==
    /\ \A k \in 1..Len(seq) : seq[k] \in 0..(t.cap - 1) /\ Slot(t, seq[k]).alive
    /\ \A k \in 1..Len(seq), l \in 1..Len(seq) : k < l => seq[k] < seq[l]
    /\ Len(seq) = t.alive_count

\* The tree below node n of heap h as a value: the operator, the constant,
\* the handle and the subtrees; an EXTR_PARAM stands for the node it wraps.
RECURSIVE TreeOf(_, _)
TreeOf(h, n) ==
    IF n = NULL THEN <<>>
    ELSE IF h[n].op_type = "EXTR_PARAM" THEN <<"EXTR_PARAM", h[n].a>>
    ELSE <<h[n].op_type, h[n].value, h[n].param_H, TreeOf(h, h[n].a), TreeOf(h, h[n].b)>>

\* The tree expr_derivative builds for eq with respect to the handle of the
\* slot i of the parameter table, at its current generation.
DerivativeBy(eq, i) ==
    LET d == expr_derivative(heap, eq, Handle(i, Slot(skt.params, i).gen), TRUE)
    IN  TreeOf(d.heap, d.p)

\* C19: after a relink the compact constraint array lists the live
\* constraint slots in ascending order, the compact parameter array the live
\* parameter slots in ascending order, link_outdated is false, and for each
\* live constraint, entry j of its derivative array is the derivative of its
\* equation with respect to the handle (slot, current generation) of the
\* j-th live parameter, with entry j of its derivative values at 0.
C19_RelinkBuildsLink ==
    JustRelinked =>
        /\ ~skt.link_outdated
        /\ ListsLive(CompactSlots(skt.tmp_contraints), skt.constraints)
        /\ ListsLive(CompactSlots(skt.tmp_params), skt.params)
        /\ \A k \in 1..Len(arrays[skt.tmp_contraints].data) :
               LET cons == Slot(skt.constraints,
                                CompactSlots(skt.tmp_contraints)[k]).payload
                   cols == CompactSlots(skt.tmp_params)
               IN  /\ Len(arrays[cons.JMR.dervs].data) = Len(cols)
                   /\ Len(arrays[cons.JMR.dervs_y].data) = Len(cols)
                   /\ \A j \in 1..Len(cols) :
                          /\ TreeOf(heap, arrays[cons.JMR.dervs].data[j])
                                 = DerivativeBy(cons.def.eq, cols[j])
                          /\ arrays[cons.JMR.dervs_y].data[j] = Rat(0)

\* A relink of two live constraints and four live parameters, slot 0 having
\* been deleted before: the live parameters are the slots 1 to 4.
C19_Witness ==
    /\ JustRelinked
    /\ skt.constraints.alive_count = 2
    /\ skt.params.alive_count = 4
    /\ ~Slot(skt.params, 0).alive
\* A step of a Solve that was called while link_outdated was false: the call
\* itself or one of its passes through the step loop.
StepOfUnlinkedSolve ==
    \/ SolveCalled /\ ~skt.link_outdated
    \/ run = "solving" /\ ~last.relinked

\* The step allocates and frees nothing and leaves the link as it was: the
\* heap of expression nodes, the arrays there are and which of them are
\* freed, the trees the derivative arrays point to, and the pointers the
\* sketch and its constraints hold.
LinkUntouched ==
    /\ heap' = heap
    /\ Len(arrays') = Len(arrays)
    /\ \A a \in 1..Len(arrays) : arrays'[a].freed = arrays[a].freed
    /\ skt'.tmp_contraints = skt.tmp_contraints
    /\ skt'.tmp_params = skt.tmp_params
    /\ skt'.normal_mtr = skt.normal_mtr
    /\ skt'.itrm_sol = skt.itrm_sol
    /\ skt'.cached_params = skt.cached_params
    /\ skt.tmp_contraints # NULL =>
           arrays'[skt.tmp_contraints].data = arrays[skt.tmp_contraints].data
    /\ skt.tmp_params # NULL =>
           arrays'[skt.tmp_params].data = arrays[skt.tmp_params].data
    /\ \A i \in 0..(skt.constraints.cap - 1) :
           LET old == Slot(skt.constraints, i).payload.JMR
               new == Slot(skt'.constraints, i).payload.JMR
           IN  /\ new.dervs = old.dervs
               /\ new.dervs_y = old.dervs_y
               /\ old.dervs # NULL => arrays'[old.dervs].data = arrays[old.dervs].data

\* C20: a Solve called while link_outdated is false performs no relink: it
\* frees and allocates no derivative tree and no array, and the compact
\* arrays and every constraint's derivative trees are the same objects
\* after the call as before it.
C20_NoRelinkWhenCurrent == [][StepOfUnlinkedSolve => LinkUntouched]_vars

\* A Solve called while link_outdated was false has taken a step and moved
\* a parameter.
C20_Witness ==
    /\ last.op = "Solve"
    /\ ~last.relinked
    /\ run = "ready"
    /\ last.steps >= 1
    /\ skt.params # last.before

\* ------------------------------------------- a parameter table on its own
\* A sketch made with a parameter capacity of n on which the client has made
\* k <= n adds (fresh), or whose n slots are all in use (filled); the client
\* goes on adding and deleting parameters.
FreshCaps == {0, 1, 2, 3, 5}

FilledCaps == {63, 64, 100, 50000}

\* k calls of ffSketch_AddParameter on r = [skt, hs], hs the handles returned.
RECURSIVE AddAll(_, _)
AddAll(r, k) ==
    IF k = 0 THEN r
    ELSE LET a == ffSketch_AddParameter(r.skt, [v |-> Rat(0)], TRUE)
         IN  AddAll([skt |-> a.skt, hs |-> r.hs \cup {a.h}], k - 1)

InitTable ==
    /\ \/ \E n \in FreshCaps : \E k \in 0..n :
            LET r == AddAll([skt |-> ffSketch_Init(n, 0, 1), hs |-> {}], k)
            IN  /\ skt = r.skt
                /\ issued = [NoCalls EXCEPT !.params = r.hs]
       \/ \E n \in FilledCaps :
            /\ skt = [ffSketch_Init(1, 0, 1) EXCEPT
                         !.params = FilledTable(n, FilledParameter)]
            /\ issued = [NoCalls EXCEPT !.params = HeldHandles(n)]
    /\ heap = <<>>
    /\ arrays = <<>>
    /\ run = "ready"
    /\ last = [op |-> "Init", arg |-> NULL, ret |-> NULL]
    /\ deleted = NoCalls
    /\ cnt = NoCounts
    /\ sv = NoFrame
    /\ ex = NoExpr

NextTable ==
    \/ \E v \in ParamValues, moved \in BOOLEAN : AddParameter([v |-> v], moved)
    \/ \E h \in DeleteInputs("params") : DeleteParameter(h)

SpecTable == InitTable /\ [][NextTable]_vars

\* ---------------------------------------------- properties of the tables
\* The step is a successful add to, or delete from, table t.
Added(t) == cnt'[t].add = cnt[t].add + 1

Destroyed(t) == cnt'[t].del = cnt[t].del + 1

\* The last call was a successful delete from table t.
DeleteOp(t) ==
    CASE t = "params" -> "DeleteParameter"
      [] t = "entities" -> "DeleteEntity"
      [] OTHER -> "DeleteConstraint"

JustDestroyed(t) == last.op = DeleteOp(t) /\ last.ret = TRUE

\* Table t is as TBL_init and adds alone have left it: nothing was deleted
\* from it and it has not grown.
OnlyAdded(t) ==
    /\ deleted[t] = {}
    /\ Len(skt[t].runs) = 1
    /\ Cardinality(issued[t]) = skt[t].alive_count

\* C21: the first handle of a slot has generation 1; a successful delete(h)
\* raises the generation of the slot by one and makes the slot the head of
\* the free list, and the add that follows it returns the index of h with
\* the generation of h plus one; and the adds on a table as TBL_init(n) left
\* it return the indices 0, 1, ... n - 1 in that order.
C21_LastFreedFirstReused ==
    [][\A t \in Tables :
          /\ Added(t) =>
                 /\ (\A g \in issued[t] : g.idx # last'.ret.idx) => last'.ret.gen = 1
                 /\ JustDestroyed(t) =>
                        last'.ret = Handle(last.arg.idx, last.arg.gen + 1)
                 /\ (OnlyAdded(t) /\ skt[t].alive_count < skt[t].cap) =>
                        last'.ret = Handle(skt[t].alive_count, 1)
          /\ Destroyed(t) =>
                 /\ Slot(skt'[t], last'.arg.idx).gen = last'.arg.gen + 1
                 /\ Slot(skt[t], last'.arg.idx).gen = last'.arg.gen
                 /\ skt'[t].free_head = last'.arg.idx]_vars

\* On a table of capacity 5 with three parameters two were deleted and two
\* added: the second add took the slot deleted first, at generation 2.
C21_Witness ==
    /\ last.op = "AddParameter"
    /\ last.ret.gen = 2
    /\ cnt.params.del = 2
    /\ cnt.params.add = 2
    /\ skt.params.cap = 5
    /\ skt.params.alive_count = 3

\* The step is a call of TBL_create on table t: an add whose definition was
\* accepted.
AddOp(t) ==
    CASE t = "params" -> "AddParameter"
      [] t = "entities" -> "AddEntity"
      [] OTHER -> "AddConstraint"

Created(t) ==
    /\ last'.op = AddOp(t)
    /\ CASE t = "params" -> TRUE
         [] t = "entities" -> ~ff_EntityDef_IsValid(last'.arg).exit
         [] OTHER -> ff_ConstraintDef_IsValid(last'.arg)

\* The slot b holds what the slot a held.
SlotKept(a, b) == a.alive = b.alive /\ a.gen = b.gen /\ a.payload = b.payload

\* The capacity a table of capacity cap has after growing.
GrownCap(cap) ==
    LET c == cap + (IF cap < 64 THEN 64 ELSE cap \div 2)
    IN  IF c > 65535 THEN 65535 ELSE c

\* C22: an add that finds the free list empty grows the table by 64 slots
\* when its capacity is below 64 and by half its capacity (rounded down)
\* otherwise, to at most 65535 slots; the index of the handle it returns is
\* the old capacity; every slot there was keeps its alive flag, its
\* generation and its payload; and no add or delete lowers the capacity.
C22_Growth ==
    [][\A t \in Tables :
          /\ (Created(t) /\ skt[t].free_head = FF_INVALID_INDEX) =>
                 /\ skt'[t].cap = GrownCap(skt[t].cap)
                 /\ last'.ret.idx = skt[t].cap
                 /\ \A i \in 0..(skt[t].cap - 1) :
                        SlotKept(Slot(skt[t], i), Slot(skt'[t], i))
          /\ last'.op \in TableOps => skt'[t].cap >= skt[t].cap]_vars

\* A filled table of 50000 slots has grown to 65535, not to 75000, and the
\* add returned index 50000.
C22_Witness ==
    /\ last.op = "AddParameter"
    /\ last.ret = Handle(50000, 1)
    /\ skt.params.cap = 65535
    /\ skt.params.alive_count = 50001

\* ------------------------------------------ properties of the solver step
\* The step is a pass of the step loop that ran to its end: the sketch had
\* not converged and the pass made no invalid access.
FullStep == run = "solving" /\ run' = "solving" /\ sv'.step = sv.step + 1

Mem2 == [heap |-> heap', arrays |-> arrays', fault |-> FALSE]

\* The system the pass set up: the normal matrix of the Jacobian it stored
\* in the dervs_y arrays, and the residuals of the linked constraints at the
\* parameter values the pass began with.
StepSystem ==
    [N |-> NormalMatrix(skt', Mem2, sv.rows, sv.cols),
     e |-> [k \in 1..sv.rows |->
              expr_evaluate(heap, skt.params, LinkedConstraint(skt, Mem, k - 1).def.eq)]]

\* The system before the loop over the rows and after each of its passes.
RECURSIVE GaussTrace(_, _, _)
GaussTrace(G, rows, row) ==
    IF row >= rows THEN <<G>>
    ELSE <<G>> \o GaussTrace(GaussRow(G, rows, row), rows, row + 1)

\* Every candidate of the pivot search of row is below epsilon.
PivotColumnSmall(N, rows, row) ==
    \A candidate_row \in row..(rows - 1) :
        BelowEpsilon(fabs(N[candidate_row + row * rows + 1]))

\* The solution entry after the pass is what it was before it.
EntryLeft(before, after) ==
    IF before = UndefVal THEN after \in Garbage ELSE after = before

\* What the pass left, tr being the trace of its elimination: the eliminated
\* matrix and residuals are stored, every row back substitution could not
\* solve has its solution entry as before, and every parameter was
\* corrected with the solution.
StepCompleted(tr, rows, cols) ==
    /\ SubSeq(arrays'[skt.normal_mtr].data, 1, rows * rows) = tr[rows + 1].N
    /\ ErrVector(skt', Mem2, rows) = tr[rows + 1].e
    /\ \A row \in 0..(rows - 1) :
           BelowEpsilon(fabs(tr[rows + 1].N[row + row * rows + 1])) =>
               EntryLeft(arrays[skt.itrm_sol].data[row + 1],
                         arrays'[skt.itrm_sol].data[row + 1])
    /\ \A c \in 0..(cols - 1) :
           LET i == ArrAt(Mem, skt.tmp_params, c).idx
           IN  ValueIn(skt'.params, i) =
                   FSub(ValueIn(skt.params, i),
                        Correction(skt', Mem2, arrays'[skt.itrm_sol].data,
                                   rows, c, 0, Rat(0)))

\* C23: in a solver step a row whose pivot column holds nothing of magnitude
\* 1e-10 or more is passed over, the matrix and the residuals being left as
\* they were (no swap, no elimination); the step goes on to back
\* substitution and to the correction of the parameters; and back
\* substitution leaves the solution entry of a row whose diagonal is below
\* 1e-10 at the value it had before the step.
C23_SmallPivotSkipped ==
    [][FullStep =>
          /\ \A row \in 0..(sv.rows - 1) :
                 PivotColumnSmall(GaussTrace(StepSystem, sv.rows, 0)[row + 1].N,
                                  sv.rows, row)
                 => GaussTrace(StepSystem, sv.rows, 0)[row + 2]
                        = GaussTrace(StepSystem, sv.rows, 0)[row + 1]
          /\ StepCompleted(GaussTrace(StepSystem, sv.rows, 0), sv.rows, sv.cols)]_vars

\* A second step on two constraints has passed over one row and solved the
\* other: of the diagonal of the eliminated matrix one entry is zero and one
\* is not.
C23_Witness ==
    /\ run = "solving"
    /\ sv.step = 2
    /\ sv.rows = 2
    /\ \E a \in {1, 4} :
           /\ arrays[skt.normal_mtr].data[a] = Rat(0)
           /\ arrays[skt.normal_mtr].data[5 - a] # Rat(0)

\* ------------------------------------- properties of the tables, continued
\* The slots met by following next_free from slot i for at most n links,
\* up to the invalid index; a walk that leaves the table or does not end
\* within n links is closed with -1.
RECURSIVE FreeWalk(_, _, _)
FreeWalk(t, i, n) ==
    IF i = FF_INVALID_INDEX THEN <<>>
    ELSE IF n = 0 \/ i >= t.cap THEN <<-1>>
    ELSE <<i>> \o FreeWalk(t, Slot(t, i).next_free, n - 1)

AliveSlots(t) == {i \in 0..(t.cap - 1) : Slot(t, i).alive}

\* w visits every dead slot of t once, no alive slot, and ends at the
\* invalid index.
VisitsDeadOnce(t, w) ==
    /\ \A k \in 1..Len(w) : w[k] # -1
    /\ Cardinality({w[k] : k \in 1..Len(w)}) = Len(w)
    /\ {w[k] : k \in 1..Len(w)} = (0..(t.cap - 1)) \ AliveSlots(t)

\* C24: in every state of every table alive_count is the number of slots
\* whose alive flag is set, and the free list from free_head holds every
\* dead slot once, holds no alive slot, and ends at the invalid index.
C24_CountAndFreeList ==
    \A t \in Tables :
        /\ skt[t].alive_count = Cardinality(AliveSlots(skt[t]))
        /\ VisitsDeadOnce(skt[t], FreeWalk(skt[t], skt[t].free_head, skt[t].cap + 1))

\* A table that has grown holds a live slot, and the slot deleted last at
\* the head of a free list of 64 slots.
C24_Witness ==
    /\ cnt.params.del = 1
    /\ Len(FreeWalk(skt.params, skt.params.free_head, skt.params.cap + 1)) = 64
    /\ Len(skt.params.runs) = 2
    /\ skt.params.alive_count = 1
    /\ skt.params.free_head = last.arg.idx
    /\ last.op = "DeleteParameter"
    /\ last.ret = TRUE

\* ------------------------------------------ a constraint with a domain
\* The sketch of one parameter p and one constraint, sqrt(p) = 0,
\* sqrt(p - 1) = 0 or the linear p = 0, built by ffSketch_AddParameter and
\* ffSketch_AddConstraint and then solved; the parameter starts where the
\* square root is a fraction. A Solve is given a budget of 0, 1, MaxSteps or
\* LongSteps steps.
SqrtInputs ==
    {<<<<"SQRT", <<"PARAM", Handle(0, 1)>>>>, Rat(v)>> : v \in {0, 1, 4, 9}}
    \cup {<<<<"SQRT", <<"SUB", <<"PARAM", Handle(0, 1)>>, <<"CONST", Rat(1)>>>>>>,
             Rat(v)>> : v \in {0, 1, 2, 5}}
    \cup {<<<<"PARAM", Handle(0, 1)>>, Rat(v)>> : v \in {0, 1}}

InitSqrt ==
    /\ \E in \in SqrtInputs :
         LET b == Build(<<>>, in[1])
         IN  /\ heap = b.heap
             /\ skt = LET s == ffSketch_Init(1, 0, 1)
                           a == ffSketch_AddParameter(s, [v |-> in[2]], TRUE).skt
                       IN  ffSketch_AddConstraint(
                               a, [eq |-> b.p, type |-> FF_GENERAL, tag |-> 0], TRUE).skt
             /\ last = [op |-> "AddConstraint", arg |-> b.p, ret |-> Handle(0, 1)]
    /\ arrays = <<>>
    /\ run = "ready"
    /\ issued = [NoCalls EXCEPT !.params = {Handle(0, 1)},
                                !.constraints = {Handle(0, 1)}]
    /\ deleted = NoCalls
    /\ cnt = NoCounts
    /\ sv = NoFrame
    /\ ex = NoExpr

NextSqrt ==
    \/ \E in \in SolveInputs \cup RootlessInputs
                 \cup {[tolerance |-> t, max_steps |-> 1] : t \in Tolerances} :
           Solve(in)
    \/ \E g \in Garbage : SolveStep(g)
    \/ SolveReturn

SpecSqrt == InitSqrt /\ [][NextSqrt]_vars

\* ----------------------------------- properties of the result of Solve
\* The residual of the live constraint of slot i at the parameter values of
\* the state.
Residual(i) ==
    expr_evaluate(heap, skt.params, Slot(skt.constraints, i).payload.def.eq)

\* C25: when Solve returns true on a sketch with a live constraint and a
\* live parameter, the equation of every live constraint, evaluated at the
\* parameter values Solve left, is of magnitude at most the tolerance, and
\* the err field of every live constraint holds the residual of that
\* constraint.
C25_TrueMeansConverged ==
    (/\ SolveReturned(TRUE)
     /\ skt.constraints.alive_count >= 1
     /\ skt.params.alive_count >= 1)
    => \A i \in LivePairs :
           /\ EvalDefined(heap, skt.params, Slot(skt.constraints, i).payload.def.eq)
           /\ Within(Residual(i), last.arg.tolerance)
           /\ Slot(skt.constraints, i).payload.JMR.err = Residual(i)

FreesLinks ==
    /\ run = "ready"
    /\ \/ last'.op = "Free"
       \/ cnt'.solve = cnt.solve + 1 /\ skt.link_outdated

\* The derivative array of the constraint of slot i, NULL when it has none.
DervsOf(i) == Slot(skt.constraints, i).payload.JMR.dervs

\* C28: when ffSketch_FreeToBaseState releases the derivative trees of a
\* live constraint, the number of entries it frees, params.alive_count, is
\* the length the linker allocated the array with, whatever parameters were
\* added or deleted since that relink: the call reads no entry past the end
\* of the array and leaves no tree of the array unfreed.
C28_FreesWhatWasLinked ==
    [][FreesLinks =>
         \A i \in LivePairs :
             (DervsOf(i) \in 1..Len(arrays) /\ ~arrays[DervsOf(i)].freed)
             => /\ skt.params.alive_count = Len(arrays[DervsOf(i)].data)
                /\ run' # "fault"
                /\ \A k \in 1..Len(arrays[DervsOf(i)].data) :
                       heap'[arrays[DervsOf(i)].data[k]].freed]_vars

\* Entry k of the compact array arr can be read and points to a live slot of
\* the storage the table t uses now.
CompactEntryLive(arr, t, k) ==
    /\ ArrReadable(Mem, arr, k)
    /\ PtrValid(t, ArrAt(Mem, arr, k))
    /\ Slot(t, ArrAt(Mem, arr, k).idx).alive

\* What the next pass of the step loop will access, with rows and cols as
\* ffSketch_Solve read them from alive_count.
PassAccessesValid ==
    /\ \A r \in 0..(sv.rows - 1) :
           /\ CompactEntryLive(skt.tmp_contraints, skt.constraints, r)
           /\ LET cons == LinkedConstraint(skt, Mem, r)
              IN  /\ ArrReadable(Mem, cons.JMR.dervs, sv.cols - 1)
                  /\ ArrReadable(Mem, cons.JMR.dervs_y, sv.cols - 1)
    /\ \A c \in 0..(sv.cols - 1) :
           CompactEntryLive(skt.tmp_params, skt.params, c)
    /\ ArrReadable(Mem, skt.normal_mtr, sv.rows * sv.rows - 1)
    /\ ArrReadable(Mem, skt.itrm_sol, sv.rows - 1)

\* C29: after any sequence of Init, adds, deletes and Solves, every access a
\* Solve makes is valid: no Solve ends in an invalid access, and before each
\* pass of the step loop every index the pass uses is below the length the
\* last relink allocated the array with and every compact pointer refers to
\* a live slot of the current storage of its table.
C29_SolveAccessesValid ==
    /\ last.op = "Solve" => run # "fault"
    /\ (run = "solving" /\ sv.step < sv.max_steps) => PassAccessesValid

\* ------------------------------------- properties of a protected derivative
\* The step is expr_derivative(E, p, true).
DerivesProtected == ex.stage = "built" /\ ex'.stage = "derived" /\ ex'.protect

\* The number of child pointers of the nodes in S that point to node n, the
\* pointer the caller holds to the root D counted with them.
Owners(h, S, D, n) ==
    Cardinality({m \in S : h[m].a = n}) + Cardinality({m \in S : h[m].b = n})
        + (IF D = n THEN 1 ELSE 0)

\* C30: expr_derivative(E, p, true) leaves E and the parameter table as they
\* were and returns a tree in which every node it allocated has exactly one
\* owner and a node of E is pointed to by EXTR_PARAM nodes only, so that
\* expr_free of the result frees every node the call allocated exactly once
\* and no other node.
C30_ProtectedDerivativeOwnsFresh ==
    [][DerivesProtected =>
         LET old   == 1..Len(heap)
             fresh == (Len(heap) + 1)..Len(heap')
             f     == expr_free([Mem EXCEPT !.heap = heap'], ex'.D)
         IN  /\ SubSeq(heap', 1, Len(heap)) = heap
             /\ skt' = skt
             /\ \A n \in fresh : Owners(heap', fresh, ex'.D, n) = 1
             /\ \A n \in fresh :
                    heap'[n].op_type # "EXTR_PARAM"
                    => heap'[n].a \notin old /\ heap'[n].b \notin old
             /\ ~f.fault
             /\ \A n \in 1..Len(heap') : f.heap[n].freed <=> n \in fresh]_vars

====
